---- MODULE Spec2Model ----
(***************************************************************************)
(* Living Tags: the tag-assignment reconciliation core.                    *)
(*                                                                         *)
(* The model has two halves.  The persisted half is the three tables of    *)
(* the schema (tags, texts, text_tags) with the constraints the schema     *)
(* declares.  The client half is the React Query cache: one texts view per *)
(* query key ['texts', userId, searchQuery], the tags view, the fetches in *)
(* flight, and the contexts of the optimistic mutations in flight.         *)
(*                                                                         *)
(* Confidences are DECIMAL(3,2): they are modelled as hundredths, so 1.0   *)
(* is 100 and 0.5 is 50.  Strings are sequences of one-character strings.  *)
(* A persistence request and the callbacks that run on its answer are one  *)
(* step: the request either commits and answers, or fails without writing. *)
(***************************************************************************)
EXTENDS Integers, Sequences, FiniteSets, Bags, TLC

VARIABLES
    tags,          \* table tags: set of [id, name]
    texts,         \* table texts: set of text ids (ids grow with created_at)
    content,       \* column texts.content, by text id
    created_at,    \* column texts.created_at, by text id
    text_tags,     \* table text_tags: bag of [text_id, tag_id, confidence, source]
    textsCache,    \* query data of every ['texts', userId, ...] key
    tagsCache,     \* query data of ['tags', userId]
    textsFetch,    \* the fetch in flight of every texts key
    tagsFetch,     \* the fetch in flight of the tags key
    usage,         \* the query ['tag-usage-counts', userId]: its data and its fetch
    searchQuery,   \* Home's searchQuery state: the key the mounted useTexts observes
    mutations,     \* optimistic mutations in flight, with their onMutate context
    autoTagRuns,   \* useAutoTag runs in flight
    batch,         \* the useBatchAutoTag run in flight
    nextId,        \* the next fresh row id (gen_random_uuid never repeats)
    file,          \* the export file last downloaded, or the file picked for import
    ops,           \* number of user operations issued so far
    last           \* what the last step did (observation only)

vars == <<tags, texts, content, created_at, text_tags, textsCache, tagsCache, textsFetch, tagsFetch,
          usage, searchQuery, mutations, autoTagRuns, batch, nextId, file, ops, last>>

----------------------------------------------------------------------------
(* Bounds of the model *)

MaxOps == 2
MaxMutations == 2
MaxRuns == 1
MaxCandidates == 2
MaxImportTags == 2
MaxFileTags == 1
MaxQueryLen == 3
MaxResyncOps == 4
MaxDocumentTexts == 2
MaxDocumentTags == 2

----------------------------------------------------------------------------
(* Characters and strings *)

ToLowerChar(c) == IF c = "A" THEN "a" ELSE IF c = "B" THEN "b" ELSE c

ToLowerCase(s) == [i \in 1..Len(s) |-> ToLowerChar(s[i])]

RECURSIVE TrimStart(_)
TrimStart(s) ==
    IF s # <<>> /\ Head(s) = " " THEN TrimStart(Tail(s)) ELSE s

RECURSIVE TrimEnd(_)
TrimEnd(s) ==
    IF s # <<>> /\ s[Len(s)] = " " THEN TrimEnd(SubSeq(s, 1, Len(s) - 1)) ELSE s

Trim(s) == TrimEnd(TrimStart(s))

Includes(s, sub) ==
    \E i \in 1..(Len(s) + 1) :
        /\ i + Len(sub) - 1 <= Len(s)
        /\ SubSeq(s, i, i + Len(sub) - 1) = sub

----------------------------------------------------------------------------
(* Persistence: the schema's tables and the statements the hooks issue *)

Row(t, g, c, s) == [text_id |-> t, tag_id |-> g, confidence |-> c, source |-> s]

TagIds == {r.id : r \in tags}

\* the rows of a bag that a column match selects (matched: the rows matching)
RowsWhere(rows, matched) == [r \in matched \cap DOMAIN rows |-> rows[r]]

RowsOfText(rows, t) == RowsWhere(rows, {r \in DOMAIN rows : r.text_id = t})

PairRows(rows, t, g) ==
    RowsWhere(rows, {r \in DOMAIN rows : r.text_id = t /\ r.tag_id = g})

RECURSIVE SeqToBag(_)
SeqToBag(q) ==
    IF q = <<>> THEN EmptyBag ELSE SetToBag({Head(q)}) (+) SeqToBag(Tail(q))

\* CHECK (confidence >= 0 AND confidence <= 1), CHECK (source IN ('ai','manual')),
\* the two REFERENCES and UNIQUE(text_id, tag_id), for a table content
ConstraintsHoldIn(rows, textIds, tagIds) ==
    /\ \A r \in DOMAIN rows :
          /\ r.confidence >= 0 /\ r.confidence <= 100
          /\ r.source \in {"ai", "manual"}
          /\ r.text_id \in textIds
          /\ r.tag_id \in tagIds
    /\ \A r \in DOMAIN rows : BagCardinality(PairRows(rows, r.text_id, r.tag_id)) <= 1

ConstraintsHold(rows) == ConstraintsHoldIn(rows, texts, TagIds)

\* a text_tags table declared without UNIQUE(text_id, tag_id)
InsertOkInWithoutUnique(rows, new, textIds, tagIds) ==
    \A r \in DOMAIN (rows (+) SeqToBag(new)) :
        /\ r.confidence >= 0 /\ r.confidence <= 100
        /\ r.source \in {"ai", "manual"}
        /\ r.text_id \in textIds
        /\ r.tag_id \in tagIds

\* INSERT of a list of rows is one statement: it stores all of them or none
InsertOkIn(rows, new, textIds, tagIds) ==
    ConstraintsHoldIn(rows (+) SeqToBag(new), textIds, tagIds)

InsertOk(rows, new) == InsertOkIn(rows, new, texts, TagIds)

Insert(rows, new) == rows (+) SeqToBag(new)

\* INSERT ... ON CONFLICT (text_id, tag_id) DO UPDATE
UpsertOk(rows, row) ==
    ConstraintsHold(RowsWhere(rows, {r \in DOMAIN rows :
        ~(r.text_id = row.text_id /\ r.tag_id = row.tag_id)}) (+) SetToBag({row}))

Upsert(rows, row) ==
    RowsWhere(rows, {r \in DOMAIN rows :
        ~(r.text_id = row.text_id /\ r.tag_id = row.tag_id)}) (+) SetToBag({row})

\* DELETE ... WHERE and the ON DELETE CASCADE of the two foreign keys
DeleteWhere(rows, matched) == RowsWhere(rows, DOMAIN rows \ matched)

----------------------------------------------------------------------------
(* The query cache *)

Searches == {<<>>, <<"a">>}

\* ['texts', userId]: the key no useTexts observer ever has
BareKey == <<"texts">>

\* ['texts', userId, searchQuery]
SearchKey(q) == <<"texts", q>>

TextKeys == {BareKey} \cup {SearchKey(q) : q \in Searches}

\* query data: undefined until the first fetch lands
NoData == [loaded |-> FALSE, data |-> <<>>]

Data(d) == [loaded |-> TRUE, data |-> d]

Idle == [st |-> "idle", data |-> <<>>]

Pending == [st |-> "pending", data |-> <<>>]

Ready(d) == [st |-> "ready", data |-> d]

\* the sequences over S of length at most n
RECURSIVE SeqsUpTo(_, _)
SeqsUpTo(S, n) ==
    IF n = 0 THEN {<<>>}
    ELSE LET shorter == SeqsUpTo(S, n - 1)
         IN shorter \cup {Append(q, x) : q \in {p \in shorter : Len(p) = n - 1}, x \in S}

TagName(g) == (CHOOSE r \in tags : r.id = g).name

\* DEFAULT NOW() of a created_at column: rows are inserted one after another
\* and draw growing ids, so the moment of an insert is named by the id it drew
DefaultNow(id) == id

\* .order('created_at', { ascending: false })
RECURSIVE NewestFirst(_)
NewestFirst(S) ==
    IF S = {} THEN <<>>
    ELSE LET m == CHOOSE x \in S : \A y \in S :
                      \/ created_at[y] < created_at[x]
                      \/ created_at[y] = created_at[x] /\ y <= x
         IN <<m>> \o NewestFirst(S \ {m})

\* the source column of a fetched assignment: TextWithTags declares it and
\* TextCard and TagBadge read it from the query data
FetchedSource(r) == r.source

\* the embedded text_tags ( confidence, tags ( id, name ) ) of one text
RECURSIVE JoinedTags(_)
JoinedTags(rows) ==
    IF DOMAIN rows = {} THEN <<>>
    ELSE LET r == CHOOSE x \in DOMAIN rows : \A y \in DOMAIN rows : x.tag_id <= y.tag_id
         IN <<[id |-> r.tag_id, name |-> TagName(r.tag_id),
               confidence |-> r.confidence, source |-> FetchedSource(r)]>>
            \o JoinedTags(rows (-) SetToBag({r}))

\* the client-side filter of the texts query
MatchesSearch(text, q) ==
    IF Trim(q) # <<>>
    THEN \E i \in 1..Len(text.tags) :
            Includes(ToLowerCase(text.tags[i].name), Trim(ToLowerCase(q)))
    ELSE TRUE

\* the queryFn of useTexts(q), evaluated on the tables as they are now
FetchedTexts(q) ==
    LET ids == NewestFirst(texts)
        transformedData ==
            [i \in 1..Len(ids) |->
                [id |-> ids[i], tags |-> JoinedTags(RowsOfText(text_tags, ids[i]))]]
    IN SelectSeq(transformedData, LAMBDA text : MatchesSearch(text, q))

\* the queryFn of useTags: .order('name', { ascending: true })
CharOrder == <<" ", "\"", "A", "B", "a", "b", "c">>

CharRank(c) == CHOOSE i \in 1..Len(CharOrder) : CharOrder[i] = c

RECURSIVE LexLess(_, _)
LexLess(a, b) ==
    IF a = <<>> THEN b # <<>>
    ELSE IF b = <<>> THEN FALSE
    ELSE IF Head(a) = Head(b) THEN LexLess(Tail(a), Tail(b))
    ELSE CharRank(Head(a)) < CharRank(Head(b))

RECURSIVE ByName(_)
ByName(S) ==
    IF S = {} THEN <<>>
    ELSE LET m == CHOOSE x \in S : \A y \in S \ {x} : ~LexLess(y.name, x.name)
         IN <<m>> \o ByName(S \ {m})

FetchedTags == ByName(tags)

\* invalidateQueries({ queryKey: ['texts', userId], exact: false }): the observed
\* query refetches at once, the others when they are observed again
InvalidateTexts(fetch) ==
    [k \in TextKeys |-> IF k = SearchKey(searchQuery) THEN Pending ELSE fetch[k]]

\* the key of the useTagUsageCounts query, ['tag-usage-counts', userId], and the
\* keys that the hooks name when they invalidate the usage counts
UsageCountsKey == "tag-usage-counts"

DeleteTextInvalidatedKey == "tagUsageCounts"

DeleteTagInvalidatedKey == "tagUsageCounts"

ImportInvalidatedKey == "tagUsageCounts"

\* the counts query before its first fetch is answered
UsageLoading == [cache |-> NoData, fetch |-> Pending]

\* useTagUsageCounts.queryFn: the number of text_tags rows of every tag of the
\* user that has a row
FetchedUsageCounts ==
    [g \in {r.tag_id : r \in DOMAIN text_tags} \cap TagIds |->
        BagCardinality(RowsWhere(text_tags, {r \in DOMAIN text_tags : r.tag_id = g}))]

\* invalidateQueries({ queryKey: [key, userId] }): the counts query, which
\* TagManager observes for as long as Home is mounted, refetches if the key is its own
InvalidateUsage(key) ==
    IF key = UsageCountsKey THEN [usage EXCEPT !.fetch = Pending] ELSE usage

\* TagManager: usageCounts[tag.id] ?? 0, over data that default to {}
DisplayedCount(g) ==
    IF usage.cache.loaded /\ g \in DOMAIN usage.cache.data THEN usage.cache.data[g] ELSE 0

\* an onMutate that cancels no fetch
KeepFetching == textsFetch

\* cancelQueries({ queryKey: ['texts', userId], exact: false })
CancelTexts == [k \in TextKeys |-> Idle]

\* the one query that getQueryData/setQueryData(['texts', userId]) address
MatchedExactly(cache) == {k \in DOMAIN cache : k = BareKey}

\* the queries that { queryKey: ['texts', userId], exact: false } matches: the
\* ones whose key starts with the filter's key
MatchedQueries(cache) == {k \in DOMAIN cache : SubSeq(k, 1, Len(BareKey)) = BareKey}

\* setQueriesData over the matched queries, updated[k] being what the updater
\* returns for the data of query k; the updaters return undefined for undefined
\* data, which is ignored
SetQueriesData(cache, updated) ==
    [k \in DOMAIN cache |->
        IF k \in MatchedQueries(cache) /\ cache[k].loaded
        THEN Data(updated[k]) ELSE cache[k]]

\* setQueryData(key, value) with a value: undefined is ignored
SetQueryData(cache, k, value) ==
    IF value.loaded THEN [cache EXCEPT ![k] = value] ELSE cache

\* previousQueries.forEach(([queryKey, data]) => setQueryData(queryKey, data))
RECURSIVE RestoreOver(_, _, _)
RestoreOver(cache, previous, keys) ==
    IF keys = {} THEN cache
    ELSE LET k == CHOOSE x \in keys : TRUE
         IN RestoreOver(SetQueryData(cache, k, previous[k]), previous, keys \ {k})

\* a rollback that writes the snapshot of the key ['texts', userId] only
RestoreExactKey(cache, previous) == SetQueryData(cache, BareKey, previous[BareKey])

RestoreQueries(cache, previous) == RestoreOver(cache, previous, DOMAIN previous)

TextIdsIn(view) == {view.data[i].id : i \in 1..Len(view.data)}

TagIdsIn(view) == {view.data[i].id : i \in 1..Len(view.data)}

----------------------------------------------------------------------------
(* Initial state: a signed-in user with a small collection who has searched
   before, so that the query of every search is cached and fresh *)

\* no file has been downloaded or picked
NoFile == [format |-> "none", json |-> FALSE, texts |-> <<>>]

NoBatch == [active |-> FALSE, newTagId |-> 0, todo |-> <<>>, glossary |-> {},
            successCount |-> 0, texts |-> <<>>, processed |-> <<>>,
            errorCount |-> 0, errors |-> <<>>]

NoRun == [textId |-> 0, pc |-> "none", glossary |-> {}, analyzedTags |-> <<>>,
          manualTagIds |-> {}, before |-> EmptyBag]

NoContext == [kind |-> "none", textId |-> 0, tagId |-> 0, name |-> <<>>, issued |-> 0,
              previousQueries |-> <<>>, previousTags |-> NoData,
              changed |-> {}, changedTags |-> FALSE]

Did(op, t, g) == [op |-> op, text |-> t, tag |-> g, run |-> NoRun, ctx |-> NoContext]

\* a step that starts an optimistic mutation records the texts queries that were
\* fetching when it started
DidMutate(op, t, g) ==
    [op |-> op, text |-> t, tag |-> g, run |-> NoRun, ctx |-> NoContext,
     fetching |-> {k \in DOMAIN textsFetch : textsFetch[k].st # "idle"}]

\* a step that ends a useAutoTag run records the run it ended
DidRun(op, run) ==
    [op |-> op, text |-> run.textId, tag |-> 0, run |-> run, ctx |-> NoContext]

\* what the user is shown when a mutation fails: the toast.error of the hook's
\* onError, or the inline error that the catch around mutateAsync sets; a
\* console.error is not shown
FailureSignal(op) ==
    CASE op = "AddManualTagError" -> "toast"
      [] op = "DeleteTextError" -> "toast"
      [] op = "DeleteTagError" -> "toast"
      [] op = "UpdateTagError" -> "inline"
      [] OTHER -> "none"

\* a step that settles an optimistic mutation records the context it settled
\* and what it showed the user
DidSettle(op, ctx) ==
    [op |-> op, text |-> ctx.textId, tag |-> ctx.tagId, run |-> NoRun, ctx |-> ctx,
     signal |-> FailureSignal(op)]

InitRows ==
    {SetToBag(R) (+) SetToBag({Row(4, 1, 90, "ai")}) :
        R \in {{Row(3, 1, 90, "ai")}, {Row(3, 1, 90, "ai"), Row(3, 2, 100, "manual")}}}

Init ==
    /\ tags = {[id |-> 1, name |-> <<"a">>], [id |-> 2, name |-> <<"b">>]}
    /\ texts = {3, 4}
    /\ content = [t \in {3, 4} |-> <<"x">>]
    /\ created_at = [t \in {3, 4} |-> DefaultNow(t)]
    /\ text_tags \in InitRows
    /\ searchQuery \in Searches
    /\ textsCache = [k \in TextKeys |->
                        IF k = BareKey THEN NoData ELSE Data(FetchedTexts(k[2]))]
    /\ tagsCache = Data(FetchedTags)
    /\ textsFetch = [k \in TextKeys |-> Idle]
    /\ tagsFetch = Idle
    /\ usage = UsageLoading
    /\ mutations = <<>>
    /\ autoTagRuns = <<>>
    /\ batch = NoBatch
    /\ nextId = 5
    /\ file = NoFile
    /\ ops = 0
    /\ last = Did("init", 0, 0)

db == <<tags, texts, content, created_at, text_tags, nextId>>

client == <<textsCache, tagsCache, textsFetch, tagsFetch, usage, searchQuery, mutations>>

RemoveAt(q, i) == SubSeq(q, 1, i - 1) \o SubSeq(q, i + 1, Len(q))

----------------------------------------------------------------------------
(* Queries *)

\* the server answers the texts query of key ['texts', userId, q]
TextsFetchRespond(q) ==
    /\ textsFetch[SearchKey(q)].st = "pending"
    /\ textsFetch' = [textsFetch EXCEPT ![SearchKey(q)] = Ready(FetchedTexts(q))]
    /\ last' = Did("TextsFetchRespond", 0, 0)
    /\ UNCHANGED <<usage, file, db, textsCache, tagsCache, tagsFetch, searchQuery, mutations,
                   autoTagRuns, batch, ops>>

\* the answer lands in the cache
TextsFetchLand(q) ==
    /\ textsFetch[SearchKey(q)].st = "ready"
    /\ textsCache' = [textsCache EXCEPT ![SearchKey(q)] = Data(textsFetch[SearchKey(q)].data)]
    /\ textsFetch' = [textsFetch EXCEPT ![SearchKey(q)] = Idle]
    /\ last' = Did("TextsFetchLand", 0, 0)
    /\ UNCHANGED <<usage, file, db, tagsCache, tagsFetch, searchQuery, mutations, autoTagRuns, batch, ops>>

TagsFetchRespond ==
    /\ tagsFetch.st = "pending"
    /\ tagsFetch' = Ready(FetchedTags)
    /\ last' = Did("TagsFetchRespond", 0, 0)
    /\ UNCHANGED <<usage, file, db, textsCache, tagsCache, textsFetch, searchQuery, mutations,
                   autoTagRuns, batch, ops>>

TagsFetchLand ==
    /\ tagsFetch.st = "ready"
    /\ tagsCache' = Data(tagsFetch.data)
    /\ tagsFetch' = Idle
    /\ last' = Did("TagsFetchLand", 0, 0)
    /\ UNCHANGED <<usage, file, db, textsCache, textsFetch, searchQuery, mutations, autoTagRuns, batch, ops>>

\* Home.handleSearch: useTexts observes another key, which fetches on mount
SetSearch(q) ==
    /\ ops < MaxOps
    /\ q # searchQuery
    /\ searchQuery' = q
    /\ textsFetch' = [textsFetch EXCEPT ![SearchKey(q)] = IF @.st = "idle" THEN Pending ELSE @]
    /\ ops' = ops + 1
    /\ last' = Did("SetSearch", 0, 0)
    /\ UNCHANGED <<usage, file, db, textsCache, tagsCache, tagsFetch, mutations, autoTagRuns, batch>>

----------------------------------------------------------------------------
(* useAddManualTag *)

\* what onMutate returns, with the keys its optimistic update changed
Context(kind, t, g, name, prevQueries, prevTags, changed, changedTags) ==
    [kind |-> kind, textId |-> t, tagId |-> g, name |-> name, issued |-> ops + 1,
     previousQueries |-> prevQueries, previousTags |-> prevTags,
     changed |-> changed, changedTags |-> changedTags]

\* the keys whose data an optimistic update changed
ChangedKeys(before, after) == {k \in TextKeys : before[k] # after[k]}

\* findIndex((t) => t.id === id), counted from 1, and 0 when there is none
FindIndex(q, id) ==
    IF \E i \in 1..Len(q) : q[i].id = id
    THEN CHOOSE i \in 1..Len(q) : q[i].id = id /\ \A j \in 1..(i - 1) : q[j].id # id
    ELSE 0

\* an updater that appends the tag without looking for it on the text
AppendManualTag(old, textId, tagId) ==
    [i \in 1..Len(old) |->
        IF old[i].id # textId THEN old[i]
        ELSE [old[i] EXCEPT !.tags = Append(@,
                [id |-> tagId, name |-> TagName(tagId),
                 confidence |-> 100, source |-> "manual"])]]

\* an updater without the test text.id !== textId: it tags every text
AddManualTagToEveryText(old, textId, tagId) ==
    [i \in 1..Len(old) |->
        [old[i] EXCEPT !.tags = Append(SelectSeq(@, LAMBDA tag : tag.id # tagId),
                [id |-> tagId, name |-> TagName(tagId),
                 confidence |-> 100, source |-> "manual"])]]

AddManualTagUpdater(old, textId, tagId) ==
    [i \in 1..Len(old) |->
        IF old[i].id # textId THEN old[i]
        ELSE LET text == old[i]
                 existingTagIndex == FindIndex(text.tags, tagId)
                 found == tagsCache.loaded /\ tagId \in TagIdsIn(tagsCache)
                 tagDetails == tagsCache.data[FindIndex(tagsCache.data, tagId)]
             IN IF existingTagIndex >= 1
                THEN [text EXCEPT !.tags[existingTagIndex] =
                        [@ EXCEPT !.confidence = 100, !.source = "manual"]]
                ELSE IF found
                THEN [text EXCEPT !.tags = Append(@,
                        [id |-> tagDetails.id, name |-> tagDetails.name,
                         confidence |-> 100, source |-> "manual"])]
                ELSE text]

\* onMutate: cancel, snapshot and update every texts query; the tag is picked in
\* the InlineTagEditor of a TextCard, so text and tag are ones the views show
AddManualTagOnMutate(textId, tagId) ==
    /\ ops < MaxOps /\ Len(mutations) < MaxMutations
    /\ textId \in TextIdsIn(textsCache[SearchKey(searchQuery)])
    /\ tagId \in TagIdsIn(tagsCache)
    /\ LET updated == SetQueriesData(textsCache, [k \in DOMAIN textsCache |->
                          AddManualTagUpdater(textsCache[k].data, textId, tagId)])
       IN /\ textsCache' = updated
          /\ mutations' = Append(mutations,
                Context("addManualTag", textId, tagId, <<>>, textsCache, NoData,
                        ChangedKeys(textsCache, updated), FALSE))
    /\ textsFetch' = CancelTexts
    /\ ops' = ops + 1
    /\ last' = DidMutate("AddManualTagOnMutate", textId, tagId)
    /\ UNCHANGED <<usage, file, db, tagsCache, tagsFetch, searchQuery, autoTagRuns, batch>>

\* mutationFn commits the upsert; onSettled invalidates
AddManualTagSuccess(i) ==
    /\ i \in 1..Len(mutations) /\ mutations[i].kind = "addManualTag"
    /\ LET row == Row(mutations[i].textId, mutations[i].tagId, 100, "manual")
       IN /\ UpsertOk(text_tags, row)
          /\ text_tags' = Upsert(text_tags, row)
    /\ textsFetch' = InvalidateTexts(textsFetch)
    /\ mutations' = RemoveAt(mutations, i)
    /\ last' = DidSettle("AddManualTagSuccess", mutations[i])
    /\ usage' = InvalidateUsage(UsageCountsKey)
    /\ UNCHANGED <<file, tags, texts, content, created_at, nextId, textsCache, tagsCache, tagsFetch, searchQuery,
                   autoTagRuns, batch, ops>>

\* mutationFn throws; onError restores every snapshotted query, onSettled invalidates
AddManualTagError(i) ==
    /\ i \in 1..Len(mutations) /\ mutations[i].kind = "addManualTag"
    /\ textsCache' = RestoreQueries(textsCache, mutations[i].previousQueries)
    /\ textsFetch' = InvalidateTexts(textsFetch)
    /\ mutations' = RemoveAt(mutations, i)
    /\ last' = DidSettle("AddManualTagError", mutations[i])
    /\ usage' = InvalidateUsage(UsageCountsKey)
    /\ UNCHANGED <<file, db, tagsCache, tagsFetch, searchQuery, autoTagRuns, batch, ops>>

----------------------------------------------------------------------------
(* useRemoveTag *)

TagIdsOfText(view, textId) ==
    UNION {{view.data[i].tags[j].id : j \in 1..Len(view.data[i].tags)} :
            i \in {n \in 1..Len(view.data) : view.data[n].id = textId}}

RemoveTagUpdater(old, textId, tagId) ==
    [i \in 1..Len(old) |->
        IF old[i].id # textId THEN old[i]
        ELSE [old[i] EXCEPT !.tags = SelectSeq(@, LAMBDA tag : tag.id # tagId)]]

\* onMutate: snapshot and update the query of key ['texts', userId]; the tag is
\* removed through the TagBadge of a tag the observed view shows on the text
RemoveTagOnMutate(textId, tagId) ==
    /\ ops < MaxOps /\ Len(mutations) < MaxMutations
    /\ tagId \in TagIdsOfText(textsCache[SearchKey(searchQuery)], textId)
    /\ LET updated == [textsCache EXCEPT ![BareKey] =
                          IF @.loaded THEN Data(RemoveTagUpdater(@.data, textId, tagId)) ELSE @]
       IN /\ textsCache' = updated
          /\ mutations' = Append(mutations,
                Context("removeTag", textId, tagId, <<>>,
                        [k \in {BareKey} |-> textsCache[k]], NoData,
                        ChangedKeys(textsCache, updated), FALSE))
    /\ textsFetch' = CancelTexts
    /\ ops' = ops + 1
    /\ last' = DidMutate("RemoveTagOnMutate", textId, tagId)
    /\ UNCHANGED <<usage, file, db, tagsCache, tagsFetch, searchQuery, autoTagRuns, batch>>

RemoveTagSuccess(i) ==
    /\ i \in 1..Len(mutations) /\ mutations[i].kind = "removeTag"
    /\ text_tags' = DeleteWhere(text_tags, {r \in DOMAIN text_tags :
            r.text_id = mutations[i].textId /\ r.tag_id = mutations[i].tagId})
    /\ textsFetch' = InvalidateTexts(textsFetch)
    /\ mutations' = RemoveAt(mutations, i)
    /\ last' = DidSettle("RemoveTagSuccess", mutations[i])
    /\ usage' = InvalidateUsage(UsageCountsKey)
    /\ UNCHANGED <<file, tags, texts, content, created_at, nextId, textsCache, tagsCache, tagsFetch, searchQuery,
                   autoTagRuns, batch, ops>>

RemoveTagError(i) ==
    /\ i \in 1..Len(mutations) /\ mutations[i].kind = "removeTag"
    /\ textsCache' = RestoreQueries(textsCache, mutations[i].previousQueries)
    /\ textsFetch' = InvalidateTexts(textsFetch)
    /\ mutations' = RemoveAt(mutations, i)
    /\ last' = DidSettle("RemoveTagError", mutations[i])
    /\ usage' = InvalidateUsage(UsageCountsKey)
    /\ UNCHANGED <<file, db, tagsCache, tagsFetch, searchQuery, autoTagRuns, batch, ops>>

----------------------------------------------------------------------------
(* useDeleteText *)

DeleteTextUpdater(old, textId) == SelectSeq(old, LAMBDA text : text.id # textId)

DeleteTextOnMutate(textId) ==
    /\ ops < MaxOps /\ Len(mutations) < MaxMutations
    /\ textId \in TextIdsIn(textsCache[SearchKey(searchQuery)])
    /\ LET updated == SetQueriesData(textsCache, [k \in DOMAIN textsCache |->
                          DeleteTextUpdater(textsCache[k].data, textId)])
       IN /\ textsCache' = updated
          /\ mutations' = Append(mutations,
                Context("deleteText", textId, 0, <<>>, textsCache, NoData,
                        ChangedKeys(textsCache, updated), FALSE))
    /\ textsFetch' = CancelTexts
    /\ ops' = ops + 1
    /\ last' = DidMutate("DeleteTextOnMutate", textId, 0)
    /\ UNCHANGED <<usage, file, db, tagsCache, tagsFetch, searchQuery, autoTagRuns, batch>>

\* DELETE FROM texts; ON DELETE CASCADE removes the text's text_tags rows
DeleteTextSuccess(i) ==
    /\ i \in 1..Len(mutations) /\ mutations[i].kind = "deleteText"
    /\ texts' = texts \ {mutations[i].textId}
    /\ content' = [t \in texts' |-> content[t]]
    /\ created_at' = [t \in texts' |-> created_at[t]]
    /\ text_tags' = DeleteWhere(text_tags, {r \in DOMAIN text_tags : r.text_id = mutations[i].textId})
    /\ textsFetch' = InvalidateTexts(textsFetch)
    /\ mutations' = RemoveAt(mutations, i)
    /\ last' = DidSettle("DeleteTextSuccess", mutations[i])
    /\ usage' = InvalidateUsage(DeleteTextInvalidatedKey)
    /\ UNCHANGED <<file, tags, nextId, textsCache, tagsCache, tagsFetch, searchQuery,
                   autoTagRuns, batch, ops>>

DeleteTextError(i) ==
    /\ i \in 1..Len(mutations) /\ mutations[i].kind = "deleteText"
    /\ textsCache' = RestoreQueries(textsCache, mutations[i].previousQueries)
    /\ textsFetch' = InvalidateTexts(textsFetch)
    /\ mutations' = RemoveAt(mutations, i)
    /\ last' = DidSettle("DeleteTextError", mutations[i])
    /\ usage' = InvalidateUsage(DeleteTextInvalidatedKey)
    /\ UNCHANGED <<file, db, tagsCache, tagsFetch, searchQuery, autoTagRuns, batch, ops>>

----------------------------------------------------------------------------
(* useDeleteTag *)

DeleteTagUpdater(old, tagId) ==
    [i \in 1..Len(old) |->
        [old[i] EXCEPT !.tags = SelectSeq(@, LAMBDA tag : tag.id # tagId)]]

\* onMutate: cancel, snapshot and update the tags query and every texts query
DeleteTagOnMutate(tagId) ==
    /\ ops < MaxOps /\ Len(mutations) < MaxMutations
    /\ tagId \in TagIdsIn(tagsCache)
    /\ LET updated == SetQueriesData(textsCache, [k \in DOMAIN textsCache |->
                          DeleteTagUpdater(textsCache[k].data, tagId)])
           updatedTags == IF tagsCache.loaded
                          THEN Data(SelectSeq(tagsCache.data, LAMBDA tag : tag.id # tagId))
                          ELSE tagsCache
       IN /\ textsCache' = updated
          /\ tagsCache' = updatedTags
          /\ mutations' = Append(mutations,
                Context("deleteTag", 0, tagId, <<>>, textsCache, tagsCache,
                        ChangedKeys(textsCache, updated), tagsCache # updatedTags))
    /\ textsFetch' = CancelTexts
    /\ tagsFetch' = Idle
    /\ ops' = ops + 1
    /\ last' = DidMutate("DeleteTagOnMutate", 0, tagId)
    /\ UNCHANGED <<usage, file, db, searchQuery, autoTagRuns, batch>>

\* DELETE FROM tags; ON DELETE CASCADE removes the tag's text_tags rows
DeleteTagSuccess(i) ==
    /\ i \in 1..Len(mutations) /\ mutations[i].kind = "deleteTag"
    /\ tags' = {r \in tags : r.id # mutations[i].tagId}
    /\ text_tags' = DeleteWhere(text_tags, {r \in DOMAIN text_tags : r.tag_id = mutations[i].tagId})
    /\ textsFetch' = InvalidateTexts(textsFetch)
    /\ tagsFetch' = Pending
    /\ mutations' = RemoveAt(mutations, i)
    /\ last' = DidSettle("DeleteTagSuccess", mutations[i])
    /\ usage' = InvalidateUsage(DeleteTagInvalidatedKey)
    /\ UNCHANGED <<file, texts, content, created_at, nextId, textsCache, tagsCache, searchQuery, autoTagRuns, batch, ops>>

DeleteTagError(i) ==
    /\ i \in 1..Len(mutations) /\ mutations[i].kind = "deleteTag"
    /\ tagsCache' = IF mutations[i].previousTags.loaded THEN mutations[i].previousTags
                    ELSE tagsCache
    /\ textsCache' = RestoreQueries(textsCache, mutations[i].previousQueries)
    /\ textsFetch' = InvalidateTexts(textsFetch)
    /\ tagsFetch' = Pending
    /\ mutations' = RemoveAt(mutations, i)
    /\ last' = DidSettle("DeleteTagError", mutations[i])
    /\ usage' = InvalidateUsage(DeleteTagInvalidatedKey)
    /\ UNCHANGED <<file, db, searchQuery, autoTagRuns, batch, ops>>

----------------------------------------------------------------------------
(* useUpdateTag *)

RenameNames == {<<"b">>, <<"c">>}

UpdateTagUpdater(old, tagId, name) ==
    [i \in 1..Len(old) |->
        IF old[i].id = tagId THEN [old[i] EXCEPT !.name = Trim(name)] ELSE old[i]]

\* onMutate: cancel, snapshot and update the tags query
UpdateTagOnMutate(tagId, name) ==
    /\ ops < MaxOps /\ Len(mutations) < MaxMutations
    /\ tagId \in TagIdsIn(tagsCache)
    /\ LET updatedTags == IF tagsCache.loaded
                          THEN Data(UpdateTagUpdater(tagsCache.data, tagId, name))
                          ELSE tagsCache
       IN /\ tagsCache' = updatedTags
          /\ mutations' = Append(mutations,
                Context("updateTag", 0, tagId, name, <<>>, tagsCache,
                        {}, tagsCache # updatedTags))
    /\ tagsFetch' = Idle
    /\ ops' = ops + 1
    /\ last' = DidMutate("UpdateTagOnMutate", 0, tagId)
    /\ UNCHANGED <<usage, file, db, textsCache, textsFetch, searchQuery, autoTagRuns, batch>>

\* UPDATE tags SET name: UNIQUE(user_id, name) holds and .single() finds the row
UpdateTagOk(tagId, name) ==
    /\ Trim(name) # <<>>
    /\ tagId \in TagIds
    /\ \A r \in tags : r.id # tagId => r.name # Trim(name)

\* the codes of the failures the hooks tell apart: 23505 is the violation of a
\* UNIQUE constraint, PGRST116 the answer of .single() to no row
UniqueViolation == "23505"

NoRowFound == "PGRST116"

FetchFailed == "fetch"

DuplicateTagName == "A tag with this name already exists"

\* the error of a rename whose request was answered by the database or was not
UpdateTagErrorCode(tagId, name, answered) ==
    IF ~answered THEN FetchFailed
    ELSE IF tagId \notin TagIds THEN NoRowFound
    ELSE UniqueViolation

\* a hook that reports every failure of a rename alike
UpdateTagGenericMessage(name, code) == "Failed to update tag"

UpdateTagMessage(name, code) ==
    IF Trim(name) = <<>> THEN "Tag name cannot be empty"
    ELSE IF code = UniqueViolation THEN DuplicateTagName
    ELSE "Failed to update tag"

\* a failed tag mutation records the glossary it met, whether the database
\* answered, and the message of the error it threw
DidFail(op, ctx, answered, message) ==
    [op |-> op, text |-> ctx.textId, tag |-> ctx.tagId, run |-> NoRun, ctx |-> ctx,
     signal |-> FailureSignal(op), glossary |-> tags, answered |-> answered,
     error |-> message]

UpdateTagSuccess(i) ==
    /\ i \in 1..Len(mutations) /\ mutations[i].kind = "updateTag"
    /\ UpdateTagOk(mutations[i].tagId, mutations[i].name)
    /\ tags' = {IF r.id = mutations[i].tagId THEN [r EXCEPT !.name = Trim(mutations[i].name)]
                ELSE r : r \in tags}
    /\ tagsFetch' = Pending
    /\ mutations' = RemoveAt(mutations, i)
    /\ last' = DidSettle("UpdateTagSuccess", mutations[i])
    /\ UNCHANGED <<usage, file, texts, content, created_at, text_tags, nextId, textsCache, tagsCache, textsFetch, searchQuery,
                   autoTagRuns, batch, ops>>

\* the request fails on the way, or the database answers it with an error
UpdateTagError(i, answered) ==
    /\ i \in 1..Len(mutations) /\ mutations[i].kind = "updateTag"
    /\ answered => ~UpdateTagOk(mutations[i].tagId, mutations[i].name)
    /\ tagsCache' = IF mutations[i].previousTags.loaded THEN mutations[i].previousTags
                    ELSE tagsCache
    /\ tagsFetch' = Pending
    /\ mutations' = RemoveAt(mutations, i)
    /\ last' = DidFail("UpdateTagError", mutations[i], answered,
                        UpdateTagMessage(mutations[i].name,
                            UpdateTagErrorCode(mutations[i].tagId, mutations[i].name, answered)))
    /\ UNCHANGED <<usage, file, db, textsCache, textsFetch, searchQuery, autoTagRuns, batch, ops>>

----------------------------------------------------------------------------
(* useAutoTag: re-classification of one text *)

AiConfidences == {60}

\* what analyzeTextForTags can return for a glossary: results with unknown ids
\* are dropped there, confidences are validated to lie in [0, 1]
ClassifierOutputs(glossary) ==
    SeqsUpTo([id : glossary, confidence : AiConfidences], MaxCandidates)

\* the Retag button of a TextCard
AutoTagStart(textId) ==
    /\ ops < MaxOps /\ Len(autoTagRuns) < MaxRuns
    /\ textId \in TextIdsIn(textsCache[SearchKey(searchQuery)])
    /\ autoTagRuns' = Append(autoTagRuns,
            [NoRun EXCEPT !.textId = textId, !.pc = "fetchTags",
                          !.before = RowsOfText(text_tags, textId)])
    /\ ops' = ops + 1
    /\ last' = Did("AutoTagStart", textId, 0)
    /\ UNCHANGED <<file, db, client, batch>>

\* a run that clears the text's ai rows before it calls the classifier
AutoTagFetchTagsClearingFirst(i) ==
    /\ i \in 1..Len(autoTagRuns) /\ autoTagRuns[i].pc = "fetchTags"
    /\ TagIds # {}
    /\ autoTagRuns' = [autoTagRuns EXCEPT ![i].pc = "analyze", ![i].glossary = TagIds]
    /\ text_tags' = DeleteWhere(text_tags, {r \in DOMAIN text_tags :
            r.text_id = autoTagRuns[i].textId /\ r.source = "ai"})
    /\ last' = Did("AutoTagFetchTags", autoTagRuns[i].textId, 0)
    /\ UNCHANGED <<file, tags, texts, content, created_at, nextId, client, batch, ops>>

\* Step 1: the glossary is read
AutoTagFetchTags(i) ==
    /\ i \in 1..Len(autoTagRuns) /\ autoTagRuns[i].pc = "fetchTags"
    /\ TagIds # {}
    /\ autoTagRuns' = [autoTagRuns EXCEPT ![i].pc = "analyze", ![i].glossary = TagIds]
    /\ last' = Did("AutoTagFetchTags", autoTagRuns[i].textId, 0)
    /\ UNCHANGED <<file, db, client, batch, ops>>

\* Step 2: the classifier answers; an empty answer ends the run as a success
AutoTagAnalyze(i, analyzedTags) ==
    /\ i \in 1..Len(autoTagRuns) /\ autoTagRuns[i].pc = "analyze"
    /\ analyzedTags \in ClassifierOutputs(autoTagRuns[i].glossary)
    /\ IF Len(analyzedTags) = 0
       THEN /\ autoTagRuns' = RemoveAt(autoTagRuns, i)
            /\ textsFetch' = InvalidateTexts(textsFetch)
            /\ last' = DidRun("AutoTagSuccess", autoTagRuns[i])
       ELSE /\ autoTagRuns' = [autoTagRuns EXCEPT ![i].pc = "readManual",
                                                  ![i].analyzedTags = analyzedTags]
            /\ textsFetch' = textsFetch
            /\ last' = Did("AutoTagAnalyze", autoTagRuns[i].textId, 0)
    /\ UNCHANGED <<usage, file, db, textsCache, tagsCache, tagsFetch, searchQuery, mutations, batch, ops>>

\* Step 3: the text's manual tag ids are read; a failed read yields no ids
AutoTagReadManual(i, readOk) ==
    /\ i \in 1..Len(autoTagRuns) /\ autoTagRuns[i].pc = "readManual"
    /\ autoTagRuns' = [autoTagRuns EXCEPT ![i].pc = "deleteAi", ![i].manualTagIds =
            IF readOk
            THEN {r.tag_id : r \in {x \in DOMAIN text_tags :
                        x.text_id = autoTagRuns[i].textId /\ x.source = "manual"}}
            ELSE {}]
    /\ last' = Did("AutoTagReadManual", autoTagRuns[i].textId, 0)
    /\ UNCHANGED <<file, db, client, batch, ops>>

\* .delete().eq('text_id', textId): the delete without the source filter
DeleteTagsOfText(rows, textId) ==
    DeleteWhere(rows, {r \in DOMAIN rows : r.text_id = textId})

\* .delete().eq('text_id', textId).eq('source', 'ai')
DeleteAiTags(rows, textId) ==
    DeleteWhere(rows, {r \in DOMAIN rows : r.text_id = textId /\ r.source = "ai"})

TagsToInsert(run) ==
    SelectSeq(run.analyzedTags, LAMBDA tag : tag.id \notin run.manualTagIds)

\* Step 4: the text's ai rows are deleted (a failure is only logged); Step 5: the
\* candidates that are manual already are dropped, and none left ends the run
AutoTagDeleteAi(i, deleteOk) ==
    /\ i \in 1..Len(autoTagRuns) /\ autoTagRuns[i].pc = "deleteAi"
    /\ text_tags' = IF deleteOk THEN DeleteAiTags(text_tags, autoTagRuns[i].textId)
                    ELSE text_tags
    /\ IF Len(TagsToInsert(autoTagRuns[i])) = 0
       THEN /\ autoTagRuns' = RemoveAt(autoTagRuns, i)
            /\ textsFetch' = InvalidateTexts(textsFetch)
            /\ last' = DidRun("AutoTagSuccess", autoTagRuns[i])
       ELSE /\ autoTagRuns' = [autoTagRuns EXCEPT ![i].pc = "insert"]
            /\ textsFetch' = textsFetch
            /\ last' = Did("AutoTagDeleteAi", autoTagRuns[i].textId, 0)
    /\ UNCHANGED <<usage, file, tags, texts, content, created_at, nextId, textsCache, tagsCache, tagsFetch, searchQuery,
                   mutations, batch, ops>>

TagAssignments(run) ==
    LET tagsToInsert == TagsToInsert(run)
    IN [n \in 1..Len(tagsToInsert) |->
            Row(run.textId, tagsToInsert[n].id, tagsToInsert[n].confidence, "ai")]

\* Step 6: the new ai rows are inserted in one statement; onSuccess invalidates
AutoTagInsert(i) ==
    /\ i \in 1..Len(autoTagRuns) /\ autoTagRuns[i].pc = "insert"
    /\ InsertOk(text_tags, TagAssignments(autoTagRuns[i]))
    /\ text_tags' = Insert(text_tags, TagAssignments(autoTagRuns[i]))
    /\ autoTagRuns' = RemoveAt(autoTagRuns, i)
    /\ textsFetch' = InvalidateTexts(textsFetch)
    /\ last' = DidRun("AutoTagSuccess", autoTagRuns[i])
    /\ usage' = InvalidateUsage(UsageCountsKey)
    /\ UNCHANGED <<file, tags, texts, content, created_at, nextId, textsCache, tagsCache, tagsFetch, searchQuery,
                   mutations, batch, ops>>

\* a throw of mutationFn: the glossary read, the classifier call or the insert
\* failed; the hook has no onError and no onSettled
AutoTagError(i) ==
    /\ i \in 1..Len(autoTagRuns) /\ autoTagRuns[i].pc \in {"fetchTags", "analyze", "insert"}
    /\ autoTagRuns' = RemoveAt(autoTagRuns, i)
    /\ last' = DidRun("AutoTagError", autoTagRuns[i])
    /\ UNCHANGED <<file, db, client, batch, ops>>

----------------------------------------------------------------------------
(* useBatchAutoTag: one new tag offered to every text *)

\* what the classifier says about the new tag for one text: an error, no
\* proposal, or a proposal with a confidence
BatchOutcomes ==
    {[kind |-> "error", confidence |-> 0], [kind |-> "none", confidence |-> 0]}
        \cup {[kind |-> "proposed", confidence |-> c] : c \in {30, 60}}

\* a threshold that a confidence of 0.3 reaches
AtLeastThreshold(confidence) == confidence >= 30

\* newTagAnalysis.confidence > 0.3
AboveThreshold(confidence) == confidence > 30

\* a catch block that counts the error and does not record it
DroppedErrors(errors, textId, failed) == errors

\* errors.push({ textId, error }) in the catch block of a pass
RecordedErrors(errors, textId, failed) ==
    IF failed THEN Append(errors, textId) ELSE errors

\* what a pass of the loop did: the answer of the classifier, the texts read
\* at the start and those processed so far, and the result as it would be
\* returned after this pass
DidBatch(textId, outcome, after) ==
    [op |-> "BatchStep", text |-> textId, tag |-> after.newTagId, run |-> NoRun,
     ctx |-> NoContext, outcome |-> outcome, done |-> after.todo = <<>>,
     texts |-> after.texts, processed |-> after.processed,
     result |-> [totalProcessed |-> Len(after.texts), successCount |-> after.successCount,
                 errorCount |-> after.errorCount, errors |-> after.errors]]

\* the glossary and the texts are read; no texts ends the run at once
BatchStart(newTagId) ==
    /\ ops < MaxOps /\ ~batch.active
    /\ newTagId \in TagIds
    /\ batch' = IF texts = {} THEN NoBatch
                ELSE [NoBatch EXCEPT !.active = TRUE, !.newTagId = newTagId,
                                     !.todo = NewestFirst(texts), !.glossary = TagIds,
                                     !.texts = NewestFirst(texts)]
    /\ ops' = ops + 1
    /\ last' = Did("BatchStart", 0, newTagId)
    /\ UNCHANGED <<file, db, client, autoTagRuns>>

\* one pass of the loop: a proposal above 0.3 is inserted, and a refused insert
\* counts as a success when the pair is there already (23505) and as an error
\* otherwise, like a failure of the classifier; after the last text the texts
\* queries are invalidated if any pass succeeded
BatchStep(outcome) ==
    /\ batch.active
    /\ LET textId == Head(batch.todo)
           row == Row(textId, batch.newTagId, outcome.confidence, "ai")
           tries == outcome.kind = "proposed" /\ AboveThreshold(outcome.confidence)
           inserts == tries /\ InsertOk(text_tags, <<row>>)
           duplicate == tries /\ DOMAIN PairRows(text_tags, textId, batch.newTagId) # {}
           failed == outcome.kind = "error" \/ (tries /\ ~inserts /\ ~duplicate)
           successCount == batch.successCount + (IF inserts \/ duplicate THEN 1 ELSE 0)
           after == [batch EXCEPT !.todo = Tail(@), !.processed = Append(@, textId),
                                  !.successCount = successCount,
                                  !.errorCount = @ + (IF failed THEN 1 ELSE 0),
                                  !.errors = RecordedErrors(@, textId, failed)]
       IN /\ text_tags' = IF inserts THEN Insert(text_tags, <<row>>) ELSE text_tags
          /\ batch' = IF Len(batch.todo) = 1 THEN NoBatch ELSE after
          /\ textsFetch' = IF Len(batch.todo) = 1 /\ successCount > 0
                           THEN InvalidateTexts(textsFetch) ELSE textsFetch
          /\ usage' = IF Len(batch.todo) = 1 /\ successCount > 0
                      THEN InvalidateUsage(UsageCountsKey) ELSE usage
          /\ last' = DidBatch(textId, outcome, after)
    /\ UNCHANGED <<file, tags, texts, content, created_at, nextId, textsCache, tagsCache, tagsFetch, searchQuery,
                   mutations, autoTagRuns, ops>>

----------------------------------------------------------------------------
(* useImportTexts: a document of one text entry, imported in one step (the rows
   it writes belong to a text no other operation knows yet) *)

\* a confidence field that is absent
Absent == -1

ImportNames == {<<"a">>, <<"A">>}

ImportConfidences == {Absent, 80}

\* a tag entry: a bare string, or an object { name, confidence?, source? }
ImportTagEntries ==
    {[shape |-> "string", name |-> n, confidence |-> Absent, source |-> "absent"] :
        n \in ImportNames}
    \cup [shape : {"object"}, name : ImportNames, confidence : ImportConfidences,
          source : {"absent", "ai", "manual"}]

ImportTagLists == SeqsUpTo(ImportTagEntries, MaxImportTags)

\* a || b on an optional number: undefined and 0 are both falsy
OrElse(confidence, default) ==
    IF confidence = Absent \/ confidence = 0 THEN default ELSE confidence

\* parseTag without the glossary lookup: the confidence and source of the row
ParseTag(tag) ==
    IF tag.shape = "string" THEN [confidence |-> 100, source |-> "manual"]
    ELSE IF tag.source = "absent"
    THEN [confidence |-> OrElse(tag.confidence, 50), source |-> "ai"]
    ELSE [confidence |-> OrElse(tag.confidence, IF tag.source = "manual" THEN 100 ELSE 50),
          source |-> tag.source]

\* a lookup that compares the names as they are
KnownExactly(glossary, name) ==
    \E r \in glossary : r.name = Trim(name)

\* tagMap.get(lowerName) finds a tag
Known(glossary, name) ==
    \E r \in glossary : ToLowerCase(r.name) = ToLowerCase(Trim(name))

\* findOrCreateTag over a list of tag entries: the glossary after the entries
\* have been resolved one after the other, new tags taking ids from freeId on
RECURSIVE GlossaryAfter(_, _, _)
GlossaryAfter(glossary, entries, freeId) ==
    IF entries = <<>> THEN glossary
    ELSE LET normalizedName == Trim(Head(entries).name)
             known == Known(glossary, Head(entries).name)
         IN IF known THEN GlossaryAfter(glossary, Tail(entries), freeId)
            ELSE GlossaryAfter(glossary \cup {[id |-> freeId, name |-> normalizedName]},
                               Tail(entries), freeId + 1)

\* tagMap.get(lowerName) on a glossary
ResolveTag(glossary, name) ==
    (CHOOSE r \in glossary : ToLowerCase(r.name) = ToLowerCase(Trim(name))).id

\* tagsToInsert of one text entry
TagsToInsertOnImport(textId, entries, glossary) ==
    [n \in 1..Len(entries) |->
        Row(textId, ResolveTag(glossary, entries[n].name),
            ParseTag(entries[n]).confidence, ParseTag(entries[n]).source)]

\* the text is inserted, its tags are resolved or created, its rows are inserted
\* in one statement (a failure is recorded in result.errors); onSuccess invalidates
ImportTexts(entries) ==
    /\ LET textId == nextId
           glossary == GlossaryAfter(tags, entries, nextId + 1)
           tagsToInsert == TagsToInsertOnImport(textId, entries, glossary)
       IN /\ texts' = texts \cup {textId}
          /\ content' = (textId :> <<"x">>) @@ content
          /\ created_at' = (textId :> DefaultNow(textId)) @@ created_at
          /\ tags' = glossary
          /\ nextId' = nextId + 1 + Cardinality(glossary \ tags)
          /\ text_tags' = IF InsertOkIn(text_tags, tagsToInsert, texts', {r.id : r \in glossary})
                          THEN Insert(text_tags, tagsToInsert)
                          ELSE text_tags
          /\ last' = Did("ImportTexts", textId, 0)
    /\ textsFetch' = InvalidateTexts(textsFetch)
    /\ tagsFetch' = Pending
    /\ ops' = ops + 1
    /\ usage' = InvalidateUsage(ImportInvalidatedKey)
    /\ UNCHANGED <<file, textsCache, tagsCache, searchQuery, mutations, autoTagRuns, batch>>

----------------------------------------------------------------------------
(* useExportTexts and useImportTexts on whole files *)

\* the (content, tag name, confidence, source) tuples an account holds
Tuples(glossary, contents, rows) ==
    LET NameOf(g) == (CHOOSE r \in glossary : r.id = g).name
    IN BagOfAll(LAMBDA r : <<contents[r.text_id], NameOf(r.tag_id), r.confidence, r.source>>,
                rows)

\* the tags array of one exported text: { name, confidence, source } per row
RECURSIVE ExportedTags(_)
ExportedTags(rows) ==
    IF DOMAIN rows = {} THEN <<>>
    ELSE LET r == CHOOSE x \in DOMAIN rows : \A y \in DOMAIN rows : x.tag_id <= y.tag_id
         IN <<[shape |-> "object", name |-> TagName(r.tag_id),
               confidence |-> r.confidence, source |-> r.source]>>
            \o ExportedTags(rows (-) SetToBag({r}))

\* user.email of the signed-in user: sign-in is by email and password
UserEmail == "user@example.com"

\* exportData: the glossary by name, the texts newest first
ExportData ==
    LET ids == NewestFirst(texts)
        glossary == ByName(tags)
    IN [format |-> "living-tags-v1",
        user_email |-> UserEmail,
        tag_glossary |-> [i \in 1..Len(glossary) |-> glossary[i].name],
        texts |-> [i \in 1..Len(ids) |->
                    [content |-> content[ids[i]],
                     tags |-> ExportedTags(RowsOfText(text_tags, ids[i])),
                     created_at |-> created_at[ids[i]]]]]

\* a name written between double quotes as it is: a double quote in it ends
\* the JSON string early
WritesAsJsonString(name) == \A i \in 1..Len(name) : name[i] # "\""

\* formatCompactJson writes tag names raw and contents with JSON.stringify;
\* parseImportFile reads the text back with JSON.parse
ParsesAsJson(data) ==
    /\ \A i \in 1..Len(data.tag_glossary) : WritesAsJsonString(data.tag_glossary[i])
    /\ \A i \in 1..Len(data.texts) : \A n \in 1..Len(data.texts[i].tags) :
          WritesAsJsonString(data.texts[i].tags[n].name)

\* the file a download leaves, as parseImportFile will see it
WrittenFile(data) ==
    [format |-> data.format, user_email |-> data.user_email,
     tag_glossary |-> data.tag_glossary, json |-> ParsesAsJson(data), texts |-> data.texts]

\* a loop that ends at the first entry that fails
AbortAfterFailure(entries) == <<>>

\* continue: the loop goes on with the entry after the one that failed
AfterFailure(entries) == Tail(entries)

\* the loop over data.texts: a text without content is skipped, the others are
\* inserted with their trimmed content and the default created_at, their tags
\* resolved or created, and their rows inserted in one statement whose failure
\* is only recorded.  The insert of the texts of failedTexts and the creation
\* of the tags of failedNames are answered with an error.  Every entry adds
\* the id of its text to textIds, or 0, and every error the index of its entry
\* to errors
RECURSIVE ImportedAccount(_, _, _, _)
ImportedAccount(acc, entries, failedTexts, failedNames) ==
    IF entries = <<>> THEN acc
    ELSE LET textData == Head(entries)
             index == Len(acc.textIds) + 1
             trimmed == Trim(textData.content)
             textId == acc.nextId
             created == SelectSeq(textData.tags,
                            LAMBDA e : Known(acc.tags, e.name) \/ Trim(e.name) \notin failedNames)
             tagErrors == [n \in 1..(Len(textData.tags) - Len(created)) |-> index]
             glossary == GlossaryAfter(acc.tags, created, textId + 1)
             tagsToInsert == TagsToInsertOnImport(textId, created, glossary)
             inserted == InsertOkIn(acc.text_tags, tagsToInsert, acc.texts \cup {textId},
                                    {r.id : r \in glossary})
         IN IF trimmed = <<>> \/ index \in failedTexts
            THEN ImportedAccount(
                    [acc EXCEPT !.textIds = Append(@, 0), !.parsed = Append(@, <<>>),
                                !.errors = Append(@, index)],
                    AfterFailure(entries), failedTexts, failedNames)
            ELSE ImportedAccount(
                    [tags |-> glossary,
                     texts |-> acc.texts \cup {textId},
                     content |-> (textId :> trimmed) @@ acc.content,
                     created_at |-> (textId :> DefaultNow(textId)) @@ acc.created_at,
                     text_tags |-> IF inserted THEN Insert(acc.text_tags, tagsToInsert)
                                   ELSE acc.text_tags,
                     nextId |-> textId + 1 + Cardinality(glossary \ acc.tags),
                     parsed |-> Append(acc.parsed, tagsToInsert),
                     textIds |-> Append(acc.textIds, textId),
                     errors |-> acc.errors \o tagErrors
                                    \o (IF inserted \/ tagsToInsert = <<>> THEN <<>> ELSE <<index>>),
                     tagsCreated |-> acc.tagsCreated + Cardinality(glossary \ acc.tags)],
                    Tail(entries), failedTexts, failedNames)

\* what a step on files did: the tuples the exporting account held, and the
\* tagsToInsert of every imported text
DidFile(op, exported, parsed) == [op |-> op, exported |-> exported, parsed |-> parsed]

\* what an import did: also the ImportResult it returned, the tables it found
\* and the requests that were answered with an error
\* result.aiTagsAssigned++ / result.manualTagsAssigned++: one for every row
\* pushed to the tagsToInsert of a text
TagsAssigned(parsed, source) ==
    Cardinality({p \in UNION {{<<i, n>> : n \in 1..Len(parsed[i])} : i \in 1..Len(parsed)} :
                    parsed[p[1]][p[2]].source = source})

DidImport(exported, acc, before, failedTexts, failedNames) ==
    [op |-> "ImportFile", exported |-> exported, parsed |-> acc.parsed,
     textIds |-> acc.textIds, errors |-> acc.errors, tagsCreated |-> acc.tagsCreated,
     textsImported |-> Cardinality({i \in 1..Len(acc.textIds) : acc.textIds[i] # 0}),
     aiTagsAssigned |-> TagsAssigned(acc.parsed, "ai"),
     manualTagsAssigned |-> TagsAssigned(acc.parsed, "manual"),
     before |-> before, failedTexts |-> failedTexts, failedNames |-> failedNames]

\* the Export button: the account is read and the file is downloaded
ExportTexts ==
    /\ file = NoFile
    /\ file' = WrittenFile(ExportData)
    /\ last' = DidFile("ExportTexts", Tuples(tags, content, text_tags), <<>>)
    /\ UNCHANGED <<db, client, autoTagRuns, batch, ops>>

\* another user signs in, one who has stored nothing yet: every table is
\* filtered by user_id
SignInToEmptyAccount ==
    /\ last.op = "ExportTexts"
    /\ tags' = {} /\ texts' = {} /\ content' = <<>> /\ created_at' = <<>>
    /\ text_tags' = EmptyBag
    /\ last' = DidFile("SignIn", last.exported, <<>>)
    /\ UNCHANGED <<nextId, file, client, autoTagRuns, batch, ops>>

\* "living-tags-v1" and what a file can carry instead: another identifier, the
\* empty string, or no format field
SupportedFormat == "living-tags-v1"

NoFormat == "undefined"

\* data.format && ...: undefined and "" are falsy
Truthy(format) == format \notin {NoFormat, ""}

\* the import dialog is given a file written by hand: an object with a texts
\* array, a bare array of texts, which parseImportFile wraps, or an object
\* without a texts array, on which parseImportFile throws
PickFile(doc) ==
    /\ file = NoFile
    /\ file' = [format |-> IF doc.shape = "array" THEN NoFormat ELSE doc.format,
                json |-> doc.shape # "no-texts",
                texts |-> IF doc.shape = "no-texts" THEN <<>> ELSE doc.texts]
    /\ last' = DidFile("PickFile", EmptyBag, <<>>)
    /\ UNCHANGED <<db, client, autoTagRuns, batch, ops>>

\* the validation at the head of useImportTexts.mutationFn passes
ValidImportData(data) ==
    /\ ~(Truthy(data.format) /\ data.format # SupportedFormat)
    /\ data.texts # <<>>

\* parseImportFile or the validation of useImportTexts throws: nothing is written
ImportFileRejected ==
    /\ last.op \in {"SignIn", "PickFile"}
    /\ ~file.json \/ ~ValidImportData(file)
    /\ last' = DidFile("ImportFileRejected", last.exported, <<>>)
    /\ UNCHANGED <<db, file, client, autoTagRuns, batch, ops>>

\* the file is parsed and useImportTexts runs over its texts
ImportFile(failedTexts, failedNames) ==
    /\ last.op \in {"SignIn", "PickFile"}
    /\ file.json /\ ValidImportData(file)
    /\ failedTexts \subseteq 1..Len(file.texts)
    /\ LET before == [tags |-> tags, texts |-> texts, content |-> content,
                      created_at |-> created_at, text_tags |-> text_tags, nextId |-> nextId]
           acc == ImportedAccount(
                    before @@ [parsed |-> <<>>, textIds |-> <<>>, errors |-> <<>>,
                               tagsCreated |-> 0],
                    file.texts, failedTexts, failedNames)
       IN /\ tags' = acc.tags /\ texts' = acc.texts /\ content' = acc.content
          /\ created_at' = acc.created_at
          /\ text_tags' = acc.text_tags /\ nextId' = acc.nextId
          /\ last' = DidImport(last.exported, acc, before, failedTexts, failedNames)
    /\ textsFetch' = InvalidateTexts(textsFetch)
    /\ tagsFetch' = Pending
    /\ usage' = InvalidateUsage(ImportInvalidatedKey)
    /\ UNCHANGED <<file, textsCache, tagsCache, searchQuery, mutations, autoTagRuns, batch, ops>>

\* tag names of the stored accounts: UNIQUE(user_id, name) compares them as
\* they are, so "a" and "A" are two tags
AccountNames == {<<"a">>, <<"A">>, <<"\"">>}

AccountContents == {<<"x">>, <<" ", "x">>}

\* stored confidences of ai rows; a manual row is stored with 1.0
AccountConfidences == {0, 60}

\* the glossaries: one or two tags, of ids 1 and 2
AccountGlossaries ==
    {{[id |-> 1, name |-> n]} : n \in AccountNames}
    \cup {{[id |-> 1, name |-> p[1]], [id |-> 2, name |-> p[2]]} :
            p \in {q \in AccountNames \X AccountNames : q[1] # q[2]}}

\* the rows a (text, tag) pair can have: none, an ai row or the manual row
PairStates(t, g) ==
    {EmptyBag, SetToBag({Row(t, g, 100, "manual")})}
    \cup {SetToBag({Row(t, g, c, "ai")}) : c \in AccountConfidences}

\* every table content over the given pairs
RECURSIVE AccountRows(_)
AccountRows(pairs) ==
    IF pairs = {} THEN {EmptyBag}
    ELSE LET p == CHOOSE x \in pairs : TRUE
         IN {one (+) rest : one \in PairStates(p[1], p[2]), rest \in AccountRows(pairs \ {p})}

\* entries of a file written by hand: the three shapes, with the confidence
\* left out, 0 or 0.8
FileConfidences == {Absent, 0, 80}

FileTagEntries ==
    {[shape |-> "string", name |-> <<"a">>, confidence |-> Absent, source |-> "absent"]}
    \cup [shape : {"object"}, name : {<<"a">>, <<"b">>}, confidence : FileConfidences,
          source : {"absent", "ai", "manual"}]

\* files of one text
HandWrittenFiles ==
    {[shape |-> "object", format |-> SupportedFormat,
      texts |-> <<[content |-> <<"x">>, tags |-> entries, created_at |-> Absent]>>] :
        entries \in SeqsUpTo(FileTagEntries, MaxFileTags)}

\* a signed-in user with one or two texts and one or two tags, nothing cached
\* and nothing in flight
PortabilityInit ==
    /\ tags \in AccountGlossaries
    /\ texts \in {{3}, {3, 4}}
    /\ content \in {[t \in texts |-> IF t = 3 THEN c ELSE <<"x">>] : c \in AccountContents}
    /\ created_at = [t \in texts |-> DefaultNow(t)]
    /\ text_tags \in AccountRows(texts \X TagIds)
    /\ searchQuery = <<>>
    /\ textsCache = [k \in TextKeys |-> NoData]
    /\ tagsCache = NoData
    /\ textsFetch = [k \in TextKeys |-> Idle]
    /\ tagsFetch = Idle
    /\ usage = UsageLoading
    /\ mutations = <<>>
    /\ autoTagRuns = <<>>
    /\ batch = NoBatch
    /\ nextId = 5
    /\ file = NoFile
    /\ ops = 0
    /\ last = DidFile("init", EmptyBag, <<>>)

PortabilityNext ==
    \/ ExportTexts
    \/ SignInToEmptyAccount
    \/ \E doc \in HandWrittenFiles : PickFile(doc)
    \/ ImportFileRejected
    \/ ImportFile({}, {})

PortabilitySpec == PortabilityInit /\ [][PortabilityNext]_vars

----------------------------------------------------------------------------
(* useImportTexts on documents of any kind *)

\* tag names of an import document: names that differ in case or in blanks
\* around them, and a name of blanks only
DocumentNames == {<<"a">>, <<"A">>, <<" ", "b">>, <<" ">>}

DocumentTagEntries ==
    {[shape |-> "string", name |-> n, confidence |-> Absent, source |-> "absent"] :
        n \in DocumentNames}

\* the names whose tag the server may refuse to create
FailingNames == {<<"b">>}

\* content of a text entry: a text, blanks only, or none
DocumentContents == {<<"x">>, <<" ">>, <<>>}

DocumentEntries ==
    [content : DocumentContents, tags : SeqsUpTo(DocumentTagEntries, MaxDocumentTags),
     created_at : {Absent}]

\* the documents: objects of the supported format with up to MaxDocumentTexts
\* entries, one-entry objects of another format, of the empty format or of no
\* format, bare arrays, and an object without texts
ImportDocuments ==
    {[shape |-> "object", format |-> SupportedFormat, texts |-> entries] :
        entries \in SeqsUpTo(DocumentEntries, MaxDocumentTexts)}
    \cup {[shape |-> "object", format |-> f, texts |-> <<e>>] :
            f \in {"living-tags-v2", "", NoFormat}, e \in DocumentEntries}
    \cup {[shape |-> "array", format |-> NoFormat, texts |-> <<e>>] : e \in DocumentEntries}
    \cup {[shape |-> "no-texts", format |-> SupportedFormat, texts |-> <<>>]}

\* the accounts that import: no tag, or the tag "a", with one text that may
\* carry it
ImportInit ==
    /\ tags \in {{}, {[id |-> 1, name |-> <<"a">>]}}
    /\ texts = {3}
    /\ content = [t \in {3} |-> <<"x">>]
    /\ created_at = [t \in {3} |-> DefaultNow(t)]
    /\ text_tags \in {EmptyBag} \cup {SetToBag({Row(3, g, 100, "manual")}) : g \in TagIds}
    /\ searchQuery = <<>>
    /\ textsCache = [k \in TextKeys |-> NoData]
    /\ tagsCache = NoData
    /\ textsFetch = [k \in TextKeys |-> Idle]
    /\ tagsFetch = Idle
    /\ usage = UsageLoading
    /\ mutations = <<>>
    /\ autoTagRuns = <<>>
    /\ batch = NoBatch
    /\ nextId = 5
    /\ file = NoFile
    /\ ops = 0
    /\ last = DidFile("init", EmptyBag, <<>>)

ImportNext ==
    \/ \E doc \in ImportDocuments : PickFile(doc)
    \/ ImportFileRejected
    \/ \E failedTexts \in SUBSET (1..MaxDocumentTexts),
          failedNames \in SUBSET FailingNames :
            ImportFile(failedTexts, failedNames)

ImportSpec == ImportInit /\ [][ImportNext]_vars

----------------------------------------------------------------------------
(* The glossary: AddTagDialog and useCreateTag, TagManager's inline edit,
   useInitializeDefaultTags, and the tags an import creates *)

MaxNameLength == 50

Repeat(ch, n) == [i \in 1..n |-> ch]

\* what can be typed as a tag name: nothing, a blank, names with and without
\* blanks around them, a name of the largest length and one longer by one
TypedNames ==
    {<<>>, <<" ">>, <<"a">>, <<" ", "a">>, <<"c">>,
     Repeat("c", MaxNameLength), Repeat("c", MaxNameLength + 1)}

\* tagSchema: min(1) and max(50) are checked on the value as it was typed
TagSchemaAccepts(name) == Len(name) >= 1 /\ Len(name) <= MaxNameLength

\* tagSchema's transform: the form data carry the trimmed value
TagFormData(name) == Trim(name)

\* TagManager.handleSaveEdit checks the trimmed value
SaveEditAccepts(name) == Len(Trim(name)) # 0 /\ Len(Trim(name)) <= MaxNameLength

\* INSERT INTO tags: UNIQUE(user_id, name) holds
CreateTagOk(name) == \A r \in tags : r.name # Trim(name)

DidCreate(op, name, answered, message) ==
    [op |-> op, text |-> 0, tag |-> 0, run |-> NoRun, ctx |-> NoContext, name |-> name,
     glossary |-> tags, answered |-> answered, error |-> message]

\* a hook that reports every failure of an insert alike
CreateTagGenericMessage(code) == "Failed to create tag"

CreateTagMessage(code) ==
    IF code = UniqueViolation THEN DuplicateTagName ELSE "Failed to create tag"

\* useCreateTag: the tag is inserted with its trimmed name and the tags query
\* is invalidated
CreateTagSuccess(name) ==
    /\ ops < MaxOps
    /\ CreateTagOk(name)
    /\ tags' = tags \cup {[id |-> nextId, name |-> Trim(name)]}
    /\ nextId' = nextId + 1
    /\ tagsFetch' = Pending
    /\ ops' = ops + 1
    /\ last' = DidCreate("CreateTagSuccess", name, TRUE, "")
    /\ UNCHANGED <<usage, file, texts, content, created_at, text_tags, textsCache, tagsCache,
                   textsFetch, searchQuery, mutations, autoTagRuns, batch>>

\* useCreateTag: the request fails on the way, or the database refuses the
\* insert; nothing is written and nothing is invalidated
CreateTagError(name, answered) ==
    /\ ops < MaxOps
    /\ answered => ~CreateTagOk(name)
    /\ ops' = ops + 1
    /\ last' = DidCreate("CreateTagError", name, answered,
                         CreateTagMessage(IF answered THEN UniqueViolation ELSE FetchFailed))
    /\ UNCHANGED <<file, db, client, autoTagRuns, batch>>

\* two of the fifteen DEFAULT_TAGS
DEFAULT_TAGS == <<<<"B">>, <<"c">>>>

\* useInitializeDefaultTags.initializeTags: a user without tags is given the
\* default ones, unless the insert fails
InitializeDefaultTags(insertOk) ==
    /\ ops < MaxOps
    /\ IF tags = {} /\ insertOk
       THEN /\ tags' = {[id |-> nextId + i - 1, name |-> DEFAULT_TAGS[i]] :
                            i \in 1..Len(DEFAULT_TAGS)}
            /\ nextId' = nextId + Len(DEFAULT_TAGS)
       ELSE UNCHANGED <<tags, nextId>>
    /\ ops' = ops + 1
    /\ last' = Did("InitializeDefaultTags", 0, 0)
    /\ UNCHANGED <<file, texts, content, created_at, text_tags, client, autoTagRuns, batch>>

\* documents of one text with one tag name
GlossaryDocuments ==
    {[shape |-> "object", format |-> SupportedFormat,
      texts |-> <<[content |-> <<"x">>, created_at |-> Absent,
                   tags |-> <<[shape |-> "string", name |-> n, confidence |-> Absent,
                               source |-> "absent"]>>]>>] :
        n \in {<<"A">>, <<" ">>, Repeat("c", MaxNameLength + 1)}}

\* a user with no tag or with the tags "a" and "b", whose TagManager is open
GlossaryInit ==
    /\ tags \in {{}, {[id |-> 1, name |-> <<"a">>], [id |-> 2, name |-> <<"b">>]}}
    /\ texts = {3}
    /\ content = [t \in {3} |-> <<"x">>]
    /\ created_at = [t \in {3} |-> DefaultNow(t)]
    /\ text_tags = EmptyBag
    /\ searchQuery = <<>>
    /\ textsCache = [k \in TextKeys |-> NoData]
    /\ tagsCache = Data(FetchedTags)
    /\ textsFetch = [k \in TextKeys |-> Idle]
    /\ tagsFetch = Idle
    /\ usage = UsageLoading
    /\ mutations = <<>>
    /\ autoTagRuns = <<>>
    /\ batch = NoBatch
    /\ nextId = 5
    /\ file = NoFile
    /\ ops = 0
    /\ last = Did("init", 0, 0)

GlossaryNext ==
    \/ TagsFetchRespond
    \/ TagsFetchLand
    \/ \E name \in TypedNames :
          TagSchemaAccepts(name) /\ CreateTagSuccess(TagFormData(name))
    \/ \E name \in TypedNames, answered \in BOOLEAN :
          TagSchemaAccepts(name) /\ CreateTagError(TagFormData(name), answered)
    \/ \E g \in TagIds, name \in TypedNames :
          SaveEditAccepts(name) /\ UpdateTagOnMutate(g, Trim(name))
    \/ \E i \in 1..Len(mutations) : UpdateTagSuccess(i)
    \/ \E i \in 1..Len(mutations), answered \in BOOLEAN : UpdateTagError(i, answered)
    \/ \E insertOk \in BOOLEAN : InitializeDefaultTags(insertOk)
    \/ \E doc \in GlossaryDocuments : PickFile(doc)
    \/ ImportFile({}, {})

GlossarySpec == GlossaryInit /\ [][GlossaryNext]_vars

----------------------------------------------------------------------------
(* analyzeTextForTags: the gateway between the hooks and the classifier *)

UnknownTagId == 9

RawConfidences == {0 - 10, 0, 60, 100, 110}

\* what the analyze-text function can answer: a transport error, no data, data
\* that is not a list of results, or a list of results with any id and number
EdgeResponses(glossary) ==
    {[kind |-> k, data |-> <<>>] : k \in {"error", "null", "malformed"}}
    \cup [kind : {"array"},
          data : SeqsUpTo([id : glossary \cup {UnknownTagId}, confidence : RawConfidences],
                          MaxCandidates)]

\* a schema that accepts any number as a confidence
AnyConfidence(c) == TRUE

\* z.number().min(0).max(1)
ValidConfidence(c) == c >= 0 /\ c <= 100

\* TagAnalysisArraySchema.safeParse
SafeParse(response) ==
    /\ response.kind = "array"
    /\ \A i \in 1..Len(response.data) : ValidConfidence(response.data[i].confidence)

Thrown(message) == [ok |-> FALSE, error |-> message, tags |-> <<>>]

Returned(analyzedTags) == [ok |-> TRUE, error |-> "", tags |-> analyzedTags]

analyzeTextForTags(text, availableTags, response) ==
    IF Trim(text) = <<>> THEN Thrown("Text content cannot be empty")
    ELSE IF availableTags = {} THEN Thrown("No available tags provided")
    ELSE IF response.kind = "error" THEN Thrown("Edge Function error")
    ELSE IF response.kind = "null" THEN Thrown("Empty response from Edge Function")
    ELSE IF ~SafeParse(response) THEN Thrown("Invalid response structure from API")
    ELSE Returned(SelectSeq(response.data, LAMBDA t : t.id \in availableTags))

DidAnalyze(text, availableTags, response) ==
    [op |-> "analyzeTextForTags", text |-> text, availableTags |-> availableTags,
     response |-> response, result |-> analyzeTextForTags(text, availableTags, response)]

\* one call of the gateway for a text and a glossary, answered in any way
Analyze(text, availableTags, response) ==
    /\ last' = DidAnalyze(text, availableTags, response)
    /\ UNCHANGED <<file, db, client, autoTagRuns, batch, ops>>

GatewayTexts == {<<"x">>, <<" ">>}

GatewayGlossaries == SUBSET {1, 2}

GatewayNext ==
    \E text \in GatewayTexts, availableTags \in GatewayGlossaries :
        \E response \in EdgeResponses(availableTags) :
            Analyze(text, availableTags, response)

GatewaySpec == Init /\ [][GatewayNext]_vars

----------------------------------------------------------------------------
(* Searching: the SearchBar of Home over a stored collection *)

SearchChars == {"a", "b", " ", ","}

\* what the user can have typed into the SearchBar
TypedQueries == SeqsUpTo(SearchChars, MaxQueryLen)

TypedKeys == {BareKey} \cup {SearchKey(q) : q \in TypedQueries}

\* a collection of two texts and the tags "a" and "Ab", each text carrying any
\* of them; nothing is cached yet and one search is left to type
SearchInit ==
    /\ tags = {[id |-> 1, name |-> <<"a">>], [id |-> 2, name |-> <<"A", "b">>]}
    /\ texts = {3, 4}
    /\ content = [t \in {3, 4} |-> <<"x">>]
    /\ created_at = [t \in {3, 4} |-> DefaultNow(t)]
    /\ text_tags \in {SetToBag({Row(p[1], p[2], 60, "ai") : p \in pairs}) :
                        pairs \in SUBSET ({3, 4} \X {1, 2})}
    /\ searchQuery = <<>>
    /\ textsCache = [k \in TypedKeys |-> NoData]
    /\ tagsCache = NoData
    /\ textsFetch = [k \in TypedKeys |-> IF k = SearchKey(<<>>) THEN Pending ELSE Idle]
    /\ tagsFetch = Idle
    /\ usage = UsageLoading
    /\ mutations = <<>>
    /\ autoTagRuns = <<>>
    /\ batch = NoBatch
    /\ nextId = 5
    /\ file = NoFile
    /\ ops = MaxOps - 1
    /\ last = Did("init", 0, 0)

SearchNext ==
    \/ \E q \in TypedQueries : SetSearch(q)
    \/ \E q \in TypedQueries : TextsFetchRespond(q)
    \/ \E q \in TypedQueries : TextsFetchLand(q)

SearchSpec == SearchInit /\ [][SearchNext]_vars

----------------------------------------------------------------------------
(* The optimistic mutations of the texts views and their resynchronization *)

\* one text carrying one ai tag; every view is cached and fresh, and
\* MaxResyncOps user operations are left
ResyncInit ==
    /\ tags = {[id |-> 1, name |-> <<"a">>]}
    /\ texts = {3}
    /\ content = [t \in {3} |-> <<"x">>]
    /\ created_at = [t \in {3} |-> DefaultNow(t)]
    /\ text_tags = SetToBag({Row(3, 1, 90, "ai")})
    /\ searchQuery \in Searches
    /\ textsCache = [k \in TextKeys |->
                        IF k = BareKey THEN NoData ELSE Data(FetchedTexts(k[2]))]
    /\ tagsCache = Data(FetchedTags)
    /\ textsFetch = [k \in TextKeys |-> Idle]
    /\ tagsFetch = Idle
    /\ usage = UsageLoading
    /\ mutations = <<>>
    /\ autoTagRuns = <<>>
    /\ batch = NoBatch
    /\ nextId = 5
    /\ file = NoFile
    /\ ops = MaxOps - MaxResyncOps
    /\ last = Did("init", 0, 0)

ResyncNext ==
    \/ \E q \in Searches : TextsFetchRespond(q)
    \/ \E q \in Searches : TextsFetchLand(q)
    \/ TagsFetchRespond
    \/ TagsFetchLand
    \/ \E q \in Searches : SetSearch(q)
    \/ \E t \in texts, g \in TagIds : AddManualTagOnMutate(t, g)
    \/ \E i \in 1..Len(mutations) : AddManualTagSuccess(i)
    \/ \E i \in 1..Len(mutations) : AddManualTagError(i)
    \/ \E t \in texts, g \in TagIds : RemoveTagOnMutate(t, g)
    \/ \E i \in 1..Len(mutations) : RemoveTagSuccess(i)
    \/ \E i \in 1..Len(mutations) : RemoveTagError(i)
    \/ \E t \in texts : DeleteTextOnMutate(t)
    \/ \E i \in 1..Len(mutations) : DeleteTextSuccess(i)
    \/ \E i \in 1..Len(mutations) : DeleteTextError(i)
    \/ \E g \in TagIds : DeleteTagOnMutate(g)
    \/ \E i \in 1..Len(mutations) : DeleteTagSuccess(i)
    \/ \E i \in 1..Len(mutations) : DeleteTagError(i)

ResyncSpec == ResyncInit /\ [][ResyncNext]_vars

----------------------------------------------------------------------------

Next ==
    \/ \E q \in Searches : TextsFetchRespond(q)
    \/ \E q \in Searches : TextsFetchLand(q)
    \/ TagsFetchRespond
    \/ TagsFetchLand
    \/ \E q \in Searches : SetSearch(q)
    \/ \E t \in texts, g \in TagIds : AddManualTagOnMutate(t, g)
    \/ \E i \in 1..Len(mutations) : AddManualTagSuccess(i)
    \/ \E i \in 1..Len(mutations) : AddManualTagError(i)
    \/ \E t \in texts, g \in TagIds : RemoveTagOnMutate(t, g)
    \/ \E i \in 1..Len(mutations) : RemoveTagSuccess(i)
    \/ \E i \in 1..Len(mutations) : RemoveTagError(i)
    \/ \E t \in texts : DeleteTextOnMutate(t)
    \/ \E i \in 1..Len(mutations) : DeleteTextSuccess(i)
    \/ \E i \in 1..Len(mutations) : DeleteTextError(i)
    \/ \E g \in TagIds : DeleteTagOnMutate(g)
    \/ \E i \in 1..Len(mutations) : DeleteTagSuccess(i)
    \/ \E i \in 1..Len(mutations) : DeleteTagError(i)
    \/ \E g \in TagIds, name \in RenameNames : UpdateTagOnMutate(g, name)
    \/ \E i \in 1..Len(mutations) : UpdateTagSuccess(i)
    \/ \E i \in 1..Len(mutations), answered \in BOOLEAN : UpdateTagError(i, answered)
    \/ \E t \in texts : AutoTagStart(t)
    \/ \E i \in 1..Len(autoTagRuns) : AutoTagFetchTags(i)
    \/ \E i \in 1..Len(autoTagRuns) :
          \E C \in ClassifierOutputs(autoTagRuns[i].glossary) : AutoTagAnalyze(i, C)
    \/ \E i \in 1..Len(autoTagRuns), readOk \in BOOLEAN : AutoTagReadManual(i, readOk)
    \/ \E i \in 1..Len(autoTagRuns), deleteOk \in BOOLEAN : AutoTagDeleteAi(i, deleteOk)
    \/ \E i \in 1..Len(autoTagRuns) : AutoTagInsert(i)
    \/ \E i \in 1..Len(autoTagRuns) : AutoTagError(i)
    \/ \E g \in TagIds : BatchStart(g)
    \/ \E outcome \in BatchOutcomes : BatchStep(outcome)
    \/ ops < MaxOps /\ \E entries \in ImportTagLists : ImportTexts(entries)

Spec == Init /\ [][Next]_vars

----------------------------------------------------------------------------
(* The usage counts of TagManager: useTagUsageCounts and the hooks that
   invalidate it *)

UsageFetchRespond ==
    /\ usage.fetch.st = "pending"
    /\ usage' = [usage EXCEPT !.fetch = Ready(FetchedUsageCounts)]
    /\ last' = Did("UsageFetchRespond", 0, 0)
    /\ UNCHANGED <<file, db, textsCache, tagsCache, textsFetch, tagsFetch, searchQuery, mutations,
                   autoTagRuns, batch, ops>>

UsageFetchLand ==
    /\ usage.fetch.st = "ready"
    /\ usage' = [cache |-> Data(usage.fetch.data), fetch |-> Idle]
    /\ last' = Did("UsageFetchLand", 0, 0)
    /\ UNCHANGED <<file, db, textsCache, tagsCache, textsFetch, tagsFetch, searchQuery, mutations,
                   autoTagRuns, batch, ops>>

\* documents of one text that carries a tag of the glossary, a new tag or none
UsageDocuments ==
    {[shape |-> "object", format |-> SupportedFormat,
      texts |-> <<[content |-> <<"x">>, created_at |-> Absent, tags |-> entries]>>] :
        entries \in {<<>>} \cup
            {<<[shape |-> "string", name |-> n, confidence |-> Absent, source |-> "absent"]>> :
                n \in {<<"a">>, <<"c">>}}}

\* the collection of Init on a Home whose queries, the usage counts among them,
\* are all loaded and fresh
UsageInit ==
    /\ tags = {[id |-> 1, name |-> <<"a">>], [id |-> 2, name |-> <<"b">>]}
    /\ texts = {3, 4}
    /\ content = [t \in {3, 4} |-> <<"x">>]
    /\ created_at = [t \in {3, 4} |-> DefaultNow(t)]
    /\ text_tags \in InitRows
    /\ searchQuery = <<>>
    /\ textsCache = [k \in TextKeys |->
                        IF k = BareKey THEN NoData ELSE Data(FetchedTexts(k[2]))]
    /\ tagsCache = Data(FetchedTags)
    /\ textsFetch = [k \in TextKeys |-> Idle]
    /\ tagsFetch = Idle
    /\ usage = [cache |-> Data(FetchedUsageCounts), fetch |-> Idle]
    /\ mutations = <<>>
    /\ autoTagRuns = <<>>
    /\ batch = NoBatch
    /\ nextId = 5
    /\ file = NoFile
    /\ ops = 0
    /\ last = Did("init", 0, 0)

UsageNext ==
    \/ \E q \in Searches : TextsFetchRespond(q)
    \/ \E q \in Searches : TextsFetchLand(q)
    \/ TagsFetchRespond
    \/ TagsFetchLand
    \/ UsageFetchRespond
    \/ UsageFetchLand
    \/ \E t \in texts, g \in TagIds : AddManualTagOnMutate(t, g)
    \/ \E i \in 1..Len(mutations) : AddManualTagSuccess(i)
    \/ \E i \in 1..Len(mutations) : AddManualTagError(i)
    \/ \E t \in texts : DeleteTextOnMutate(t)
    \/ \E i \in 1..Len(mutations) : DeleteTextSuccess(i)
    \/ \E i \in 1..Len(mutations) : DeleteTextError(i)
    \/ \E g \in TagIds : DeleteTagOnMutate(g)
    \/ \E i \in 1..Len(mutations) : DeleteTagSuccess(i)
    \/ \E i \in 1..Len(mutations) : DeleteTagError(i)
    \/ \E doc \in UsageDocuments : PickFile(doc)
    \/ ImportFile({}, {})

UsageSpec == UsageInit /\ [][UsageNext]_vars

----------------------------------------------------------------------------
(* Properties *)

ManualRows(rows, t) ==
    RowsWhere(rows, {r \in DOMAIN rows : r.text_id = t /\ r.source = "manual"})

AiRows(rows, t) ==
    RowsWhere(rows, {r \in DOMAIN rows : r.text_id = t /\ r.source = "ai"})

AutoTagOps == {"AutoTagStart", "AutoTagFetchTags", "AutoTagAnalyze", "AutoTagReadManual",
               "AutoTagDeleteAi", "AutoTagSuccess", "AutoTagError"}

ErrorOps == {"AddManualTagError", "RemoveTagError", "DeleteTextError", "DeleteTagError",
             "UpdateTagError"}

LoadedKeys == {k \in TextKeys : textsCache[k].loaded}

\* the entries of tag g on text t in a view
TagEntries(view, t, g) ==
    LET hits == {i \in 1..Len(view.data) : view.data[i].id = t}
    IN UNION {{<<i, j>> : j \in {n \in 1..Len(view.data[i].tags) :
                                    view.data[i].tags[n].id = g}} : i \in hits}

\* view lists tag g on text t exactly once, as a manual tag of confidence 1.0
ShowsManual(view, t, g) ==
    /\ Cardinality(TagEntries(view, t, g)) = 1
    /\ \A e \in TagEntries(view, t, g) :
          /\ view.data[e[1]].tags[e[2]].source = "manual"
          /\ view.data[e[1]].tags[e[2]].confidence = 100

\* C1: no step of a re-classification, whatever the classifier returned and
\* whether the step succeeded or failed, removes or changes a persisted manual
\* assignment
C1_ManualDurability ==
    [][last'.op \in AutoTagOps =>
          \A t \in texts : ManualRows(text_tags', t) = ManualRows(text_tags, t)]_vars

\* a re-classification succeeded on a text with a manual assignment that the
\* classifier proposed again, and the assignment is still there
C1_Witness ==
    /\ last.op = "AutoTagSuccess"
    /\ \E r \in DOMAIN ManualRows(last.run.before, last.text) :
          /\ \E n \in 1..Len(last.run.analyzedTags) : last.run.analyzedTags[n].id = r.tag_id
          /\ r \in DOMAIN text_tags
    /\ DOMAIN AiRows(last.run.before, last.text) # {}

\* C2: persistence holds at most one assignment per (text, tag) pair, and no
\* texts view lists a tag id twice on one text
C2_Uniqueness ==
    /\ \A r \in DOMAIN text_tags :
          BagCardinality(PairRows(text_tags, r.text_id, r.tag_id)) <= 1
    /\ \A k \in LoadedKeys : \A i \in 1..Len(textsCache[k].data) :
          \A m, n \in 1..Len(textsCache[k].data[i].tags) :
              textsCache[k].data[i].tags[m].id = textsCache[k].data[i].tags[n].id => m = n

\* a manual add over an ai assignment committed while another mutation was in
\* flight, and the pair has its single row
C2_Witness ==
    /\ last.op = "AddManualTagSuccess"
    /\ mutations # <<>>
    /\ BagCardinality(PairRows(text_tags, last.text, last.tag)) = 1
    /\ \E k \in LoadedKeys : Cardinality(TagEntries(textsCache[k], last.text, last.tag)) = 1

\* C3: every manual assignment has confidence 1.0, in persistence and in every
\* texts view
C3_ManualConfidence ==
    /\ \A r \in DOMAIN text_tags : r.source = "manual" => r.confidence = 100
    /\ \A k \in LoadedKeys : \A i \in 1..Len(textsCache[k].data) :
          \A n \in 1..Len(textsCache[k].data[i].tags) :
              textsCache[k].data[i].tags[n].source = "manual"
                  => textsCache[k].data[i].tags[n].confidence = 100

\* C4: right after the error handler of a failed optimistic mutation, every
\* view the mutation changed holds the value it had just before the update
C4_RollbackExact ==
    last.op \in ErrorOps =>
        /\ \A k \in last.ctx.changed : textsCache[k] = last.ctx.previousQueries[k]
        /\ last.ctx.changedTags => tagsCache = last.ctx.previousTags

\* a failed mutation had changed the view of every search, and another one the
\* cached glossary
C4_Witness ==
    /\ last.op \in ErrorOps
    /\ \A q \in Searches : SearchKey(q) \in last.ctx.changed
    /\ \A k \in last.ctx.changed : textsCache[k] = last.ctx.previousQueries[k]

\* C5: the optimistic update of remove-tag takes the tag off the text in every
\* cached texts view, the one of the active search and every other one
C5_RemoveTagAllViews ==
    last.op = "RemoveTagOnMutate" =>
        \A k \in LoadedKeys : TagEntries(textsCache[k], last.text, last.tag) = {}

Reconciled(run) ==
    LET manual == ManualRows(run.before, run.textId)
        manualIds == {r.tag_id : r \in DOMAIN manual}
    IN manual (+) SetToBag({Row(run.textId, run.analyzedTags[n].id,
                                run.analyzedTags[n].confidence, "ai") :
                            n \in {m \in 1..Len(run.analyzedTags) :
                                      run.analyzedTags[m].id \notin manualIds}})

\* C7: a successful re-classification leaves the text with its manual
\* assignments plus the classifier's candidates that are not manual, as ai
C7_ReconciledSet ==
    last.op = "AutoTagSuccess" => RowsOfText(text_tags, last.text) = Reconciled(last.run)

\* C8: a re-classification with no candidate is a success that leaves the text
\* with its manual assignments only
C8_NoCandidates ==
    (last.op = "AutoTagSuccess" /\ last.run.analyzedTags = <<>>)
        => DOMAIN AiRows(text_tags, last.text) = {}

Reflects(cache, glossary, m) ==
    /\ m.kind = "addManualTag" =>
          \A k \in m.changed : m.textId \in TextIdsIn(cache[k])
                                  => ShowsManual(cache[k], m.textId, m.tagId)
    /\ m.kind = "deleteText" => \A k \in m.changed : m.textId \notin TextIdsIn(cache[k])
    /\ m.kind = "deleteTag" =>
          /\ \A k \in m.changed : \A t \in TextIdsIn(cache[k]) :
                TagEntries(cache[k], t, m.tagId) = {}
          /\ m.changedTags => m.tagId \notin TagIdsIn(glossary)
    /\ m.kind = "updateTag" =>
          (m.changedTags => \A i \in 1..Len(glossary.data) :
                glossary.data[i].id = m.tagId => glossary.data[i].name = Trim(m.name))

\* C10: the rollback of a failed mutation does not erase the optimistic effect
\* of a mutation that was issued after it and is still in flight
C10_RollbackKeepsLater ==
    [][last'.op \in ErrorOps =>
          \A j \in 1..Len(mutations') :
              (mutations'[j].issued > last'.ctx.issued
                  /\ Reflects(textsCache, tagsCache, mutations'[j]))
                  => Reflects(textsCache', tagsCache', mutations'[j])]_vars

\* C11: a re-classification writes nothing until the classifier has answered:
\* a step of a run changes text_tags only once the run is past the classifier
\* call, and a failed run's last step changes no row
C11_NoWriteBeforeClassifier ==
    [][last'.op \in AutoTagOps =>
          /\ last'.op = "AutoTagError" => text_tags' = text_tags
          /\ text_tags' # text_tags =>
                \E i \in 1..Len(autoTagRuns) :
                    /\ autoTagRuns[i].textId = last'.text
                    /\ autoTagRuns[i].pc \in {"deleteAi", "insert"}]_vars

\* the classifier call of a run failed on a text with ai and manual
\* assignments, and the text has the rows it had when the run started
C11_Witness ==
    /\ last.op = "AutoTagError"
    /\ last.run.pc = "analyze"
    /\ DOMAIN AiRows(last.run.before, last.text) # {}
    /\ DOMAIN ManualRows(last.run.before, last.text) # {}
    /\ RowsOfText(text_tags, last.text) = last.run.before

\* C12: the insert a re-classification issues holds no row for a pair that is
\* manual in persistence when the insert is issued
C12_NoInsertOnManualPair ==
    (last.op \in {"AutoTagSuccess", "AutoTagError"} /\ last.run.pc = "insert") =>
        \A n \in 1..Len(TagAssignments(last.run)) :
            DOMAIN ManualRows(PairRows(text_tags, last.text,
                                       TagAssignments(last.run)[n].tag_id), last.text) = {}

\* what an import entry stands for: a bare name is manual at 1.0; an object
\* keeps its confidence when it has one, and is ai at 0.5 without source
\* or confidence, and manual at 1.0 or ai at 0.5 with source and without confidence
MappedAssignment(tag) ==
    IF tag.shape = "string" THEN [confidence |-> 100, source |-> "manual"]
    ELSE LET source == IF tag.source = "absent" THEN "ai" ELSE tag.source
         IN [confidence |-> IF tag.confidence # Absent THEN tag.confidence
                            ELSE IF source = "manual" THEN 100 ELSE 50,
             source |-> source]

\* C13: import gives every tag entry of a file the source and confidence its
\* shape stands for
C13_ImportMapping ==
    last.op = "ImportFile" =>
        \A i \in 1..Len(last.parsed) : \A n \in 1..Len(last.parsed[i]) :
            /\ last.parsed[i][n].confidence = MappedAssignment(file.texts[i].tags[n]).confidence
            /\ last.parsed[i][n].source = MappedAssignment(file.texts[i].tags[n]).source

\* C14: after the export of an account and the import of the file into an
\* empty account, the second account holds the (content, tag name, confidence,
\* source) tuples the first one held
C14_RoundTrip ==
    (last.op \in {"ImportFile", "ImportFileRejected"} /\ file.format = "living-tags-v1"
        /\ last.exported # EmptyBag)
        => Tuples(tags, content, text_tags) = last.exported

\* the terms of a query: what is left between blanks and commas
RECURSIVE Terms(_, _)
Terms(q, term) ==
    IF q = <<>> THEN (IF term = <<>> THEN {} ELSE {term})
    ELSE IF Head(q) \in {" ", ","}
    THEN (IF term = <<>> THEN {} ELSE {term}) \cup Terms(Tail(q), <<>>)
    ELSE Terms(Tail(q), Append(term, Head(q)))

\* every term of q is, case aside, part of the name of a tag assigned to t
MatchesEveryTerm(t, q) ==
    \A term \in Terms(q, <<>>) :
        \E r \in DOMAIN RowsOfText(text_tags, t) :
            Includes(ToLowerCase(TagName(r.tag_id)), ToLowerCase(term))

\* C15: the view fetched for a query holds exactly the texts that match every
\* term of the query, and every text when the query has no term
C15_SearchAllTerms ==
    \A q \in TypedQueries :
        (SearchKey(q) \in DOMAIN textsCache /\ textsCache[SearchKey(q)].loaded) =>
            \A t \in texts : t \in TextIdsIn(textsCache[SearchKey(q)]) <=> MatchesEveryTerm(t, q)

\* no mutation is in flight and every refetch has completed
Resynchronized ==
    /\ mutations = <<>>
    /\ \A k \in TextKeys : textsFetch[k].st = "idle"

\* C16: once the mutations have settled and the refetches they started have
\* completed, the view on screen is the search-filter projection of the stored
\* texts, each assignment with its stored confidence and source
C16_ViewsResynchronized ==
    Resynchronized =>
        textsCache[SearchKey(searchQuery)] = Data(FetchedTexts(searchQuery))

\* C17: while a mutation is in flight, no refetch that lands replaces its
\* optimistic effect in a view or in the glossary with stored data that does
\* not include the mutation yet
C17_OptimisticStaysVisible ==
    [][last'.op \in {"TextsFetchLand", "TagsFetchLand"} =>
          \A j \in 1..Len(mutations) :
              Reflects(textsCache, tagsCache, mutations[j])
                  => Reflects(textsCache', tagsCache', mutations[j])]_vars

TextsMutateOps == {"AddManualTagOnMutate", "RemoveTagOnMutate", "DeleteTextOnMutate",
                   "DeleteTagOnMutate"}

\* C18: when the optimistic update of a mutation of the texts views has been
\* applied, no fetch of a texts view is in flight any more, so no answer asked
\* for before the update can be written over it
C18_RefetchCancelled ==
    last.op \in TextsMutateOps => \A k \in TextKeys : textsFetch[k].st = "idle"

\* a mutation started while the view on screen was being refetched, the fetch
\* is gone and the mutation shows in that view
C18_Witness ==
    /\ last.op \in {"AddManualTagOnMutate", "DeleteTextOnMutate"}
    /\ SearchKey(searchQuery) \in last.fetching
    /\ textsFetch[SearchKey(searchQuery)].st = "idle"
    /\ \E j \in 1..Len(mutations) : SearchKey(searchQuery) \in mutations[j].changed

\* C19: the error step of every optimistic mutation kind, the step that puts
\* the snapshot back, shows the user that the mutation failed
C19_RollbackSignalled ==
    last.op \in ErrorOps => last.signal # "none"

\* no text of a loaded view lists tag g, and the cached glossary omits g
TagGone(g) ==
    /\ \A k \in LoadedKeys : \A t \in TextIdsIn(textsCache[k]) :
          TagEntries(textsCache[k], t, g) = {}
    /\ g \notin TagIdsIn(tagsCache)

\* no loaded view contains text t
TextGone(t) == \A k \in LoadedKeys : t \notin TextIdsIn(textsCache[k])

\* C20: once a delete-tag or a delete-text has succeeded no stored assignment
\* refers to what it deleted, however many did before; and from its optimistic
\* update on, while it is in flight and when it has succeeded, no view and no
\* cached glossary shows what it deletes
C20_DeletedIsGone ==
    /\ last.op = "DeleteTagSuccess" =>
          /\ \A r \in DOMAIN text_tags : r.tag_id # last.tag
          /\ TagGone(last.tag)
    /\ last.op = "DeleteTextSuccess" =>
          /\ \A r \in DOMAIN text_tags : r.text_id # last.text
          /\ TextGone(last.text)
    /\ \A j \in 1..Len(mutations) :
          /\ mutations[j].kind = "deleteTag" => TagGone(mutations[j].tagId)
          /\ mutations[j].kind = "deleteText" => TextGone(mutations[j].textId)

\* C21: an imported text is stored with the creation timestamp its entry
\* carries, and with the moment of the import, which is later than every
\* timestamp drawn before it, when the entry carries none
C21_ImportTimestamp ==
    last.op = "ImportFile" =>
        \A i \in 1..Len(file.texts) :
            last.textIds[i] # 0 =>
                IF file.texts[i].created_at # Absent
                THEN created_at[last.textIds[i]] = file.texts[i].created_at
                ELSE created_at[last.textIds[i]] >= DefaultNow(last.before.nextId)

\* the rows of text t as { name, confidence, source } entries
AssignmentEntries(t) ==
    BagOfAll(LAMBDA r : [shape |-> "object", name |-> TagName(r.tag_id),
                         confidence |-> r.confidence, source |-> r.source],
             RowsOfText(text_tags, t))

\* C30: the file an export writes is a document with the format identifier
\* and the user's email, one glossary entry per tag, and for every text one
\* entry with its content, its creation timestamp and one { name, confidence,
\* source } entry per stored assignment of the text
C30_ExportedDocument ==
    last.op = "ExportTexts" =>
        /\ file.json
        /\ file.format = SupportedFormat
        /\ file.user_email = UserEmail
        /\ Len(file.tag_glossary) = Cardinality(tags)
        /\ {file.tag_glossary[i] : i \in 1..Len(file.tag_glossary)} = {r.name : r \in tags}
        /\ Len(file.texts) = Cardinality(texts)
        /\ \E f \in [1..Len(file.texts) -> texts] :
              /\ \A i, j \in 1..Len(file.texts) : f[i] = f[j] => i = j
              /\ \A i \in 1..Len(file.texts) :
                    /\ file.texts[i].content = content[f[i]]
                    /\ file.texts[i].created_at = created_at[f[i]]
                    /\ SeqToBag(file.texts[i].tags) = AssignmentEntries(f[i])

\* C22: an import of a document whose format is another value than the
\* supported identifier, or whose texts are missing or empty, is rejected
\* and writes no text, no tag and no assignment
C22_RejectedBeforeWrites ==
    [][(/\ last'.op \in {"ImportFile", "ImportFileRejected"}
        /\ \/ file.format \notin {SupportedFormat, NoFormat}
           \/ ~file.json
           \/ file.texts = <<>>)
          => last'.op = "ImportFileRejected" /\ UNCHANGED db]_vars

\* the entries of the file that have a content and whose insert was answered
ImportableEntries ==
    {i \in 1..Len(file.texts) :
        Trim(file.texts[i].content) # <<>> /\ i \notin last.failedTexts}

\* C23: an import goes through every entry of the texts list once and in
\* order: an entry with a content whose insert is answered is stored as a new
\* text, whatever happened to the entries before it; an entry that is not
\* stored, or not with all its tags, adds an error to the result
C23_EveryEntryOnce ==
    last.op = "ImportFile" =>
        /\ Len(last.textIds) = Len(file.texts)
        /\ Cardinality(texts) = Cardinality(last.before.texts) + Cardinality(ImportableEntries)
        /\ \A i \in 1..Len(file.texts) :
              IF i \in ImportableEntries
              THEN /\ last.textIds[i] \in texts \ last.before.texts
                   /\ content[last.textIds[i]] = Trim(file.texts[i].content)
                   /\ BagCardinality(RowsOfText(text_tags, last.textIds[i]))
                            < Len(file.texts[i].tags)
                        => \E e \in 1..Len(last.errors) : last.errors[e] = i
              ELSE /\ last.textIds[i] = 0
                   /\ \E e \in 1..Len(last.errors) : last.errors[e] = i
        /\ \A i, j \in ImportableEntries : i < j => last.textIds[i] < last.textIds[j]
        /\ \A e, f \in 1..Len(last.errors) : e < f => last.errors[e] <= last.errors[f]

\* the first entry of a file had no content, or its insert failed, the second
\* one lost a tag that could not be created, and the second one is stored
C23_Witness ==
    /\ last.op = "ImportFile"
    /\ Len(file.texts) = 2
    /\ last.textIds[1] = 0
    /\ last.textIds[2] \in texts
    /\ Len(last.errors) >= 2
    /\ BagCardinality(RowsOfText(text_tags, last.textIds[2])) = 1
    /\ Len(file.texts[2].tags) = 2

DocumentTagEntries_A ==
    [shape |-> "string", name |-> <<"A">>, confidence |-> Absent, source |-> "absent"]

DocumentTagEntries_b ==
    [shape |-> "string", name |-> <<" ", "b">>, confidence |-> Absent, source |-> "absent"]

\* the tag names of the entries of the file, trimmed
TrimmedNamesOfFile ==
    UNION {{Trim(file.texts[i].tags[n].name) : n \in 1..Len(file.texts[i].tags)} :
            i \in 1..Len(file.texts)}

EqualIgnoringCase(a, b) == ToLowerCase(a) = ToLowerCase(b)

\* C24: the tags an import creates carry a trimmed name of the file, none of
\* them equals, case aside, a tag the glossary held before or another tag the
\* import created, and every row of an imported text refers to a tag whose
\* name is, case and blanks aside, a tag name of its entry
C24_ResolvedIgnoringCase ==
    last.op = "ImportFile" =>
        LET createdTags == tags \ last.before.tags
        IN /\ last.before.tags \subseteq tags
           /\ Cardinality(createdTags) = last.tagsCreated
           /\ \A c \in createdTags :
                 /\ c.name \in TrimmedNamesOfFile
                 /\ \A r \in last.before.tags : ~EqualIgnoringCase(c.name, r.name)
                 /\ \A d \in createdTags : EqualIgnoringCase(c.name, d.name) => c = d
           /\ \A i \in 1..Len(file.texts) :
                 \A r \in DOMAIN RowsOfText(text_tags, last.textIds[i]) :
                     \E n \in 1..Len(file.texts[i].tags) :
                         EqualIgnoringCase(TagName(r.tag_id), Trim(file.texts[i].tags[n].name))

\* an import into a glossary that holds "a" met the names "A" and " b": "A"
\* was resolved to the tag that was there and "b" was created
C24_Witness ==
    /\ last.op = "ImportFile"
    /\ last.before.tags = {[id |-> 1, name |-> <<"a">>]}
    /\ last.tagsCreated = 1
    /\ \E c \in tags : c.name = <<"b">>
    /\ \E i \in 1..Len(file.texts) :
          /\ file.texts[i].tags = <<DocumentTagEntries_A, DocumentTagEntries_b>>
          /\ {r.tag_id : r \in DOMAIN RowsOfText(text_tags, last.textIds[i])}
                = {1} \cup {c.id : c \in {d \in tags : d.name = <<"b">>}}

\* the call reached the classifier and was answered with a list of results
AnsweredWithList ==
    /\ last.op = "analyzeTextForTags"
    /\ Trim(last.text) # <<>> /\ last.availableTags # {}
    /\ last.response.kind = "array"

\* C25: when the classifier answers with a list of results, the gateway fails
\* iff some confidence of the list lies outside [0, 1]; otherwise it returns
\* exactly the results whose id is in the supplied glossary, in their order,
\* so that an empty list is returned as an empty result
C25_GatewayContract ==
    AnsweredWithList =>
        LET data == last.response.data
            outside == \E i \in 1..Len(data) :
                          data[i].confidence < 0 \/ data[i].confidence > 100
        IN /\ outside => ~last.result.ok
           /\ ~outside =>
                 /\ last.result.ok
                 /\ \A i \in 1..Len(last.result.tags) :
                       last.result.tags[i].id \in last.availableTags
                 /\ last.result.tags
                       = SelectSeq(data, LAMBDA t : t.id \in last.availableTags)
           /\ data = <<>> => last.result = Returned(<<>>)

\* a list with a result of an unknown id and a result of a known one was
\* answered: the known one alone was returned
C25_Witness ==
    /\ AnsweredWithList
    /\ Len(last.response.data) = 2
    /\ last.response.data[1].id = UnknownTagId
    /\ last.response.data[2].id \in last.availableTags
    /\ last.result.ok
    /\ last.result.tags = <<last.response.data[2]>>

\* the tags other than tag g that carry the trimmed name
NamedAlike(glossary, g, name) == {r \in glossary : r.id # g /\ r.name = Trim(name)}

\* C26: a create whose name another tag carries, and a rename of a stored tag
\* to such a name, fail, once the database answers them, with the error of
\* duplicate names and leave the stored glossary as it was; the failed rename
\* puts the tags view back to what it was before its optimistic change
C26_DuplicateNameError ==
    /\ (/\ last.op = "CreateTagError" /\ last.answered
        /\ NamedAlike(last.glossary, 0, last.name) # {})
          => last.error = DuplicateTagName /\ tags = last.glossary
    /\ (/\ last.op = "UpdateTagError" /\ last.answered
        /\ last.tag \in {r.id : r \in last.glossary}
        /\ NamedAlike(last.glossary, last.tag, last.ctx.name) # {})
          => /\ last.error = DuplicateTagName
             /\ tags = last.glossary
             /\ last.ctx.previousTags.loaded => tagsCache = last.ctx.previousTags

\* a rename of a tag to the name of another tag had changed the tags view and
\* failed: the view shows the stored names again
C26_Witness ==
    /\ last.op = "UpdateTagError" /\ last.answered
    /\ last.ctx.changedTags
    /\ NamedAlike(last.glossary, last.tag, last.ctx.name) # {}
    /\ last.error = DuplicateTagName
    /\ tagsCache = Data(ByName(last.glossary))

\* C27: every tag has a trimmed name of 1 to 50 characters that no other tag
\* of the user has
C27_TagNamesValid ==
    \A r \in tags :
        /\ r.name = Trim(r.name)
        /\ Len(r.name) >= 1 /\ Len(r.name) <= MaxNameLength
        /\ \A q \in tags : q.name = r.name => q = r

\* the pair is stored as a manual assignment
StoredManual(t, g) == \E r \in DOMAIN PairRows(text_tags, t, g) : r.source = "manual"

\* the view shows the pair as a manual assignment
ShownManual(view, t, g) ==
    \E i \in 1..Len(view.data) :
        /\ view.data[i].id = t
        /\ \E j \in 1..Len(view.data[i].tags) :
              view.data[i].tags[j].id = g /\ view.data[i].tags[j].source = "manual"

\* C28: add-manual-tag on a pair that is manual already changes nothing: the
\* upsert leaves the rows of the text as they were, and the optimistic update
\* leaves every view that shows the pair as manual as it was
C28_ManualAgainNoOp ==
    [][/\ (/\ last'.op = "AddManualTagSuccess" /\ mutations' # mutations
           /\ StoredManual(last'.text, last'.tag))
             => RowsOfText(text_tags', last'.text) = RowsOfText(text_tags, last'.text)
       /\ (/\ last'.op = "AddManualTagOnMutate" /\ ops' # ops)
             => \A k \in TextKeys :
                   ShownManual(textsCache[k], last'.text, last'.tag)
                      => textsCache'[k] = textsCache[k]]_vars

\* C29: the view loaded for a query holds the texts that the fetch for any
\* query of the same set of terms returns, whatever the order or the
\* repetition of the terms in either
C29_SearchOrderIndependent ==
    \A q1 \in TypedQueries, q2 \in TypedQueries :
        (/\ textsCache[SearchKey(q1)].loaded
         /\ Terms(q1, <<>>) = Terms(q2, <<>>))
            => TextIdsIn(textsCache[SearchKey(q1)]) = TextIdsIn(Data(FetchedTexts(q2)))

\* the tag ids of the reconciled set of a run: the manual ones it read and the
\* candidates it is about to insert
ReconciledTagIds(run) ==
    run.manualTagIds \cup {TagsToInsert(run)[n].id : n \in 1..Len(TagsToInsert(run))}

\* C31: while a re-classification has computed its reconciled set and its
\* insert has not completed yet, every loaded view that holds the text shows
\* the text with the tags of the reconciled set
C31_ReclassifyOptimistic ==
    \A i \in 1..Len(autoTagRuns) :
        autoTagRuns[i].pc = "insert" =>
            \A k \in TextKeys :
                (textsCache[k].loaded /\ autoTagRuns[i].textId \in TextIdsIn(textsCache[k]))
                    => TagIdsOfText(textsCache[k], autoTagRuns[i].textId)
                          = ReconciledTagIds(autoTagRuns[i])

\* C32: a re-classification that fails, with no other operation since the
\* account was loaded, leaves the rows of its text as they were when it began
C32_FailedRunChangesNothing ==
    (last.op = "AutoTagError" /\ ops = 1)
        => RowsOfText(text_tags, last.text) = last.run.before

\* C33: when a re-classification has failed after it changed the rows of its
\* text, the view on screen shows the stored state or its query has been
\* invalidated and is being refetched
C33_FailureInvalidates ==
    (/\ last.op = "AutoTagError" /\ ops = 1
     /\ RowsOfText(text_tags, last.text) # last.run.before)
        => \/ textsFetch[SearchKey(searchQuery)].st # "idle"
           \/ textsCache[SearchKey(searchQuery)] = Data(FetchedTexts(searchQuery))

\* nothing is in flight: no mutation, no fetch, no run and no batch
Settled ==
    /\ mutations = <<>>
    /\ tagsFetch.st = "idle"
    /\ \A k \in TextKeys : textsFetch[k].st = "idle"
    /\ autoTagRuns = <<>>
    /\ ~batch.active

\* every loaded view shows every stored tag under its stored name
StoredNamesShown ==
    /\ tagsCache.loaded => tagsCache.data = FetchedTags
    /\ \A k \in TextKeys :
          textsCache[k].loaded =>
              \A i \in 1..Len(textsCache[k].data) :
                  \A j \in 1..Len(textsCache[k].data[i].tags) :
                      LET tag == textsCache[k].data[i].tags[j]
                      IN tag.id \in TagIds => tag.name = TagName(tag.id)

\* C34: a rename that succeeds changes no assignment, and once the one
\* operation of the user has settled and nothing is in flight, the glossary
\* view and every texts view show the stored names
C34_RenameVisible ==
    /\ []((Settled /\ ops = 1) => StoredNamesShown)
    /\ [][(last'.op = "UpdateTagSuccess" /\ mutations' # mutations)
            => text_tags' = text_tags]_vars

\* the number of stored rows of the given source on the texts an import added
StoredBySource(source) ==
    BagCardinality(RowsWhere(text_tags, {r \in DOMAIN text_tags :
        r.text_id \in texts \ last.before.texts /\ r.source = source}))

\* C35: the result of an import counts what the import stored: the texts, the
\* tags it created, and the ai and the manual rows
C35_ImportCounts ==
    last.op = "ImportFile" =>
        /\ last.textsImported = Cardinality(texts \ last.before.texts)
        /\ last.tagsCreated = Cardinality(tags \ last.before.tags)
        /\ last.aiTagsAssigned = StoredBySource("ai")
        /\ last.manualTagsAssigned = StoredBySource("manual")

\* a view without what it shows for the pair (t, g)
OtherAssignments(view, t, g) ==
    [loaded |-> view.loaded,
     data |-> [i \in 1..Len(view.data) |->
                [view.data[i] EXCEPT !.tags =
                    SelectSeq(@, LAMBDA tag : ~(view.data[i].id = t /\ tag.id = g))]]]

\* the stored rows of every pair other than (t, g)
OtherRows(rows, t, g) ==
    RowsWhere(rows, {r \in DOMAIN rows : ~(r.text_id = t /\ r.tag_id = g)})

\* C36: the optimistic update of add-manual-tag and of remove-tag on (T, G)
\* changes in no view anything but what is shown for (T, G), keeps as snapshot
\* the views as they were and leaves the snapshots of the mutations in flight
\* alone; the write they commit changes no row but the one of (T, G)
C36_OnlyThePair ==
    [][/\ (/\ last'.op \in {"AddManualTagOnMutate", "RemoveTagOnMutate"}
           /\ ops' # ops)
             => /\ \A k \in TextKeys :
                      OtherAssignments(textsCache'[k], last'.text, last'.tag)
                        = OtherAssignments(textsCache[k], last'.text, last'.tag)
                /\ \A j \in 1..Len(mutations) : mutations'[j] = mutations[j]
                /\ LET ctx == mutations'[Len(mutations')]
                   IN \A k \in DOMAIN ctx.previousQueries :
                         ctx.previousQueries[k] = textsCache[k]
                /\ text_tags' = text_tags
       /\ (/\ last'.op \in {"AddManualTagSuccess", "RemoveTagSuccess"}
           /\ mutations' # mutations)
             => /\ OtherRows(text_tags', last'.text, last'.tag)
                      = OtherRows(text_tags, last'.text, last'.tag)
                /\ textsCache' = textsCache]_vars

\* add-manual-tag has changed a view that shows another text with a tag
C36_Witness ==
    /\ last.op = "AddManualTagOnMutate"
    /\ mutations[Len(mutations)].changed # {}
    /\ \E k \in mutations[Len(mutations)].changed :
          \E i \in 1..Len(textsCache[k].data) :
              textsCache[k].data[i].id # last.text /\ textsCache[k].data[i].tags # <<>>

\* C37: a batch run takes the texts it read one by one, each once, and ends
\* after the last; a pass that fails is recorded and the run goes on; the
\* result counts the texts read, the errors recorded, and no more successes
\* and errors than texts
C37_BatchProcessesAll ==
    /\ batch.active => (batch.todo # <<>> /\ batch.processed \o batch.todo = batch.texts)
    /\ last.op = "BatchStep" =>
          /\ last.outcome.kind = "error" =>
                last.result.errors # <<>>
                    /\ last.result.errors[Len(last.result.errors)] = last.text
          /\ last.result.errorCount = Len(last.result.errors)
          /\ last.result.successCount + last.result.errorCount <= Len(last.processed)
          /\ last.done =>
                /\ ~batch.active
                /\ last.processed = last.texts
                /\ last.result.totalProcessed = Len(last.texts)
                /\ last.result.successCount + last.result.errorCount
                      <= last.result.totalProcessed

\* a run over two texts has ended: the classifier failed on the first and the
\* second was tagged
C37_Witness ==
    /\ last.op = "BatchStep" /\ last.done
    /\ Len(last.texts) = 2
    /\ last.result.errors = <<last.texts[1]>>
    /\ last.result.successCount = 1
    /\ last.outcome.kind = "proposed"

\* C38: a pass of the batch run for tag G on text T stores nothing or adds
\* the ai row of (T, G) with the confidence the classifier proposed, which is
\* above 0.3, to a text that had no row for G; every row stored before is
\* still stored, and a proposal for a pair that is stored already changes
\* nothing and is no error
C38_BatchOnlyAdds ==
    [][(last'.op = "BatchStep" /\ batch' # batch) =>
          LET t == last'.text
              g == last'.tag
              proposed == Row(t, g, last'.outcome.confidence, "ai")
          IN /\ \/ text_tags' = text_tags
                \/ /\ text_tags' = text_tags (+) SetToBag({proposed})
                   /\ last'.outcome.kind = "proposed" /\ last'.outcome.confidence > 30
                   /\ DOMAIN PairRows(text_tags, t, g) = {}
             /\ (/\ last'.outcome.kind = "proposed" /\ last'.outcome.confidence > 30
                 /\ DOMAIN PairRows(text_tags, t, g) # {})
                   => /\ text_tags' = text_tags
                      /\ last'.result.errorCount = batch.errorCount]_vars

\* the classifier proposed the new tag for a text that carries it already: the
\* pass counted a success and no error
C38_Witness ==
    /\ last.op = "BatchStep"
    /\ last.outcome.kind = "proposed" /\ last.outcome.confidence > 30
    /\ BagCardinality(PairRows(text_tags, last.text, last.tag)) = 1
    /\ \E r \in DOMAIN PairRows(text_tags, last.text, last.tag) :
          r.confidence # last.outcome.confidence
    /\ last.result.successCount >= 1 /\ last.result.errors = <<>>

\* the number of stored assignments that reference tag g
StoredCount(g) ==
    BagCardinality(RowsWhere(text_tags, {r \in DOMAIN text_tags : r.tag_id = g}))

\* TagManager shows, for every tag that is stored, the number of its assignments
CountsShown == \A g \in TagIds : DisplayedCount(g) = StoredCount(g)

\* C39: when delete-text, delete-tag or import has settled, the usage counts
\* query has been invalidated and is being refetched, or an answer that was
\* computed from the stored rows is about to land, or TagManager shows for
\* every remaining tag the number of stored assignments that reference it
C39_UsageCountsInvalidated ==
    (last.op \in {"DeleteTextSuccess", "DeleteTextError", "DeleteTagSuccess",
                  "DeleteTagError", "ImportFile"})
        => \/ usage.fetch.st = "pending"
           \/ usage.fetch = Ready(FetchedUsageCounts)
           \/ usage.fetch.st = "idle" /\ CountsShown

====
